---------------------------- MODULE Spec2Model ----------------------------
(***************************************************************************)
(* Model of the price-tracking application's analytics-report state        *)
(* machine (trigger / poll / callback routes), of its product identity     *)
(* store (scrape upsert, URL lookup) and of the URL canonicalizer.         *)
(*                                                                         *)
(* Strings that the code inspects (URLs) are sequences of tokens; a token  *)
(* stands for the run of characters the code treats as a unit.  Times are  *)
(* clock ticks of TickMs milliseconds.                                     *)
(***************************************************************************)
EXTENDS Integers, Sequences, FiniteSets, TLC

VARIABLES
    products,   \* product store: id -> Product document
    reports,    \* report store: set of Analyzed Report documents
    clock,      \* wall clock, in ticks
    webhookUrl, \* process.env.N8N_PRODUCT_REPORT_WEBHOOK_URL is set
    secret,     \* process.env.N8N_PRODUCT_REPORT_SECRET ("" when unset)
    trig,       \* analytics-trigger requests (POST /api/products/:id/analytics)
    cb,         \* the report-callback request being handled / last handled
    poll,       \* the answer to the last poll (GET /api/products/:id/analytics)
    runs,       \* the runs of the scrape action (scrapeAndStoreProduct)
    look,       \* the lookup request being handled / last answered
    canon,      \* a call of buildUrlCandidates: its input and its result
    fire,       \* a call of POST /api/products/scrape: url, webhook reply, answer
    client      \* the ProductAnalytics component mounted in the browser

vars ==
    <<products, reports, clock, webhookUrl, secret, trig, cb, poll, runs, look,
      canon, fire, client>>

(***************************************************************************)
(* Bounds of the model.                                                    *)
(***************************************************************************)
MaxClock == 2          \* the clock stops after this many ticks
TickMs == 300000       \* one tick: five minutes
MaxTriggers == 2       \* trigger requests per behaviour
MaxReports == 2        \* report documents per behaviour
MaxRuns == 2           \* runs of the scrape action per behaviour
MaxSegments == 3       \* path segments of the URLs given to the canonicalizer
MaxLoads == 3          \* poll requests of one mounted component

None == "none"

\* Ids handed to the routes: "bad" is a string that is no ObjectId, the others
\* are well-formed ObjectId strings (with or without a Product stored under them).
Ids == {"bad", "p1", "p2"}

\* null / unset timestamp
NoTime == -1

\* unset URL
NoUrl == <<>>

\* mongoose.isValidObjectId(id)
IsValidObjectId(id) == id # "bad"

DEFAULT_POLL_SHOULD_RETRIGGER_AFTER_MS == 10 * 60 * 1000

(***************************************************************************)
(* URLs as token sequences.                                                *)
(***************************************************************************)
(* A URL string is  [" "] scheme ["www."] host {"/" segment} ["/"] [query]   *)
(* [fragment] [" "], one token per part.                                     *)
Space == " "
Schemes == {"https://", "http://"}
HostNames == {"shop.example", "Shop.Example", "amazon.in", "amzn.to"}
Asins == {"B0ABCDEFGH", "b0abcdefgh"}
RefSegments == {"ref=sr"}
Segments == {"item", "other", "dp", "gp", "product"} \cup Asins \cup RefSegments
Queries == {"?tag=1"}
Fragments == {"#reviews"}

ItemUrl == <<"https://", "shop.example", "/", "item">>
OtherUrl == <<"https://", "shop.example", "/", "other">>

\* the URL parser lower-cases the host name
Lower(t) == IF t = "Shop.Example" THEN "shop.example" ELSE t

\* mutant: the ASIN keeps its case
Upper_Kept(t) == t

\* String.prototype.toUpperCase on an ASIN
Upper(t) == IF t = "b0abcdefgh" THEN "B0ABCDEFGH" ELSE t

\* String.prototype.trim
Trim(s) ==
    LET idx == {i \in 1..Len(s) : s[i] # Space}
    IN  IF idx = {} THEN <<>>
        ELSE SubSeq(s, CHOOSE i \in idx : \A j \in idx : i <= j,
                       CHOOSE i \in idx : \A j \in idx : j <= i)

HostAt(s) == IF Len(s) >= 2 /\ s[2] = "www." THEN 3 ELSE 2

HashOf(s) ==
    IF Len(s) > HostAt(s) /\ s[Len(s)] \in Fragments THEN <<s[Len(s)]>> ELSE <<>>

SearchOf(s) ==
    LET n == Len(s) - Len(HashOf(s))
    IN  IF n > HostAt(s) /\ s[n] \in Queries THEN <<s[n]>> ELSE <<>>

PathOf(s) ==
    SubSeq(s, HostAt(s) + 1, Len(s) - Len(HashOf(s)) - Len(SearchOf(s)))

IsPath(p) ==
    \A i \in 1..Len(p) : IF i % 2 = 1 THEN p[i] = "/" ELSE p[i] \in Segments

\* new URL(s) does not throw
CanParse(s) ==
    /\ Len(s) >= 2
    /\ s[1] \in Schemes
    /\ Len(s) >= HostAt(s)
    /\ s[HostAt(s)] \in HostNames
    /\ IsPath(PathOf(s))

\* new URL(s): the host is lower-cased, an empty path becomes "/"
ParseUrl(s) ==
    [scheme |-> s[1], www |-> (s[2] = "www."), host |-> Lower(s[HostAt(s)]),
     path |-> IF PathOf(s) = <<>> THEN <<"/">> ELSE PathOf(s),
     search |-> SearchOf(s), hash |-> HashOf(s)]

\* URL.prototype.toString
toString(u) ==
    <<u.scheme>> \o (IF u.www THEN <<"www.">> ELSE <<>>) \o <<u.host>>
        \o u.path \o u.search \o u.hash

\* str.replace(/\/$/, "")
StripTrailingSlash(s) ==
    IF s # <<>> /\ s[Len(s)] = "/" THEN SubSeq(s, 1, Len(s) - 1) ELSE s

\* mutant: the fragment is kept
NoHash_Kept(u) == u

\* u.hash = "" ; u.search = ""
NoHash(u) == [u EXCEPT !.hash = <<>>]
NoSearch(u) == [u EXCEPT !.search = <<>>]

\* the candidates every caller builds: the trimmed input, the URL without its
\* fragment, without fragment and query, and that without a trailing slash
BaseCandidates(input) ==
    LET trimmed == Trim(input)
    IN  (IF trimmed # <<>> THEN {trimmed} ELSE {})
        \cup (IF CanParse(trimmed)
              THEN LET u == ParseUrl(trimmed)
                   IN  { toString(NoHash(u)), toString(NoSearch(NoHash(u))),
                         StripTrailingSlash(toString(NoSearch(NoHash(u)))) }
              ELSE {})

isAmazonLike(u) == u.host = "amazon.in" \/ (u.host = "amzn.to" /\ ~u.www)

\* the positions of pathname where /(dp|gp\/product)\/([A-Z0-9]{10})(?:\/|$)/i
\* matches, as the position of the ASIN
AsinAt(p) ==
    {i \in 1..Len(p) :
        /\ p[i] \in Asins
        /\ i = Len(p) \/ p[i + 1] = "/"
        /\ \/ i >= 4 /\ SubSeq(p, i - 3, i - 1) = <<"/", "dp", "/">>
           \/ i >= 6 /\ SubSeq(p, i - 5, i - 1) = <<"/", "gp", "/", "product", "/">>}

\* the four stable forms of /dp/<ASIN> on the host without its www. prefix,
\* in the order the code adds them
AsinCandidates(u) ==
    IF AsinAt(u.path) = {} THEN <<>>
    ELSE LET i == CHOOSE i \in AsinAt(u.path) : \A j \in AsinAt(u.path) : i <= j
             form(sch, w) == <<sch>> \o w \o <<u.host, "/", "dp", "/", Upper(u.path[i])>>
         IN  << form("https://", <<>>), form("https://", <<"www.">>),
                form("http://", <<>>), form("http://", <<"www.">>) >>

\* the positions of pathname where "/ref=" starts
RefAt(p) == {i \in 1..(Len(p) - 1) : p[i] = "/" /\ p[i + 1] \in RefSegments}

\* pathname.split("/ref=")[0] put back as the pathname, query and fragment
\* dropped, then without a trailing slash
RefCandidates(u) ==
    IF RefAt(u.path) = {} THEN <<>>
    ELSE LET i == CHOOSE i \in RefAt(u.path) : \A j \in RefAt(u.path) : i <= j
             strippedPath == SubSeq(u.path, 1, i - 1)
             stripped == [NoSearch(NoHash(u)) EXCEPT
                             !.path = IF strippedPath = <<>> THEN <<"/">>
                                      ELSE strippedPath]
         IN  << StripTrailingSlash(toString(stripped)) >>

\* the elements of a list
Range(list) == {list[i] : i \in 1..Len(list)}

\* mutant: a list instead of a Set, every value is appended
AddAll_NoSet(candidates, list) == candidates \o list

\* Set.prototype.add over a list, in order: a value already in the set is not
\* added again and keeps its first position
RECURSIVE AddAll(_, _)
AddAll(candidates, list) ==
    IF list = <<>> THEN candidates
    ELSE AddAll(IF Head(list) \in Range(candidates) THEN candidates
                ELSE Append(candidates, Head(list)),
                Tail(list))

\* what the code adds after new URL(trimmed) has succeeded, in its order
Discovered(u) ==
    << toString(NoHash(u)), toString(NoSearch(NoHash(u))),
       StripTrailingSlash(toString(NoSearch(NoHash(u)))) >>
    \o (IF isAmazonLike(u)
        THEN AsinCandidates(NoSearch(NoHash(u))) \o RefCandidates(NoSearch(NoHash(u)))
        ELSE <<>>)

\* .filter(Boolean): the empty string is dropped
IsNonEmpty(c) == c # <<>>

buildUrlCandidates(input) ==
    LET trimmed == Trim(input)
        first == IF trimmed # <<>> THEN <<trimmed>> ELSE <<>>
    IN  SelectSeq(IF CanParse(trimmed)
                  THEN AddAll(first, Discovered(ParseUrl(trimmed)))
                  ELSE first,
                  IsNonEmpty)

(***************************************************************************)
(* The embedded analytics sub-record of a Product.                         *)
(***************************************************************************)
\* A payload value (body.data of a callback, analytics.data of a Product):
\*   kind "unset"  : no value
\*   kind "object" : an object with content c, carrying a productId field of its
\*                   own when pid # None
\*   kind "scalar" : a truthy non-object (a string or a number)
\*   wrapped       : the value is { analytics_payload: <kind, c, pid> }
NoData == [kind |-> "unset", wrapped |-> FALSE, c |-> 0, pid |-> None]

\* {} : what `body.data ?? {}` gives for a missing data field
EmptyObject == [kind |-> "object", wrapped |-> FALSE, c |-> 0, pid |-> None]

\* schema default: status "idle", nothing else set
IdleAnalytics ==
    [status |-> "idle", requestedAt |-> NoTime, completedAt |-> NoTime,
     error |-> None, data |-> NoData]

\* the placeholder created by the scrape action when the workflow answers empty
PlaceholderAnalytics ==
    [status |-> "pending", requestedAt |-> 0, completedAt |-> NoTime,
     error |-> None, data |-> NoData]

\* a Product document: the fields of productSchema the routes read or write,
\* and the updatedAt that { timestamps: true } maintains on every write
\* inserted with the aggregates of the scraped payload, which reports the
\* scraped price for each of them
NewProduct(url, price, history, analytics) ==
    [url |-> url, currentPrice |-> price, priceHistory |-> history,
     lowestPrice |-> price, highestPrice |-> price, averagePrice |-> price,
     analytics |-> analytics, updatedAt |-> 0]

\* the aggregates of ../utility over a non-empty list of samples
getLowestPrice(priceList) ==
    CHOOSE x \in Range(priceList) : \A y \in Range(priceList) : x <= y

getHighestPrice(priceList) ==
    CHOOSE x \in Range(priceList) : \A y \in Range(priceList) : y <= x

RECURSIVE SumOfPrices(_)
SumOfPrices(priceList) ==
    IF priceList = <<>> THEN 0
    ELSE Head(priceList) + SumOfPrices(Tail(priceList))

getAveragePrice(priceList) == SumOfPrices(priceList) \div Len(priceList)

(***************************************************************************)
(* The report store.  A document lives in one physical collection          *)
(* (db/collection), has an _id of some shape, optional productId and       *)
(* productUrl correlation fields, a payload and a creation time.           *)
(*   idShape "oid"   : _id is ObjectId(idRef)                              *)
(*   idShape "str"   : _id is the string idRef                             *)
(*   idShape "ejson" : _id is the embedded document { $oid: idRef }        *)
(*   idShape "auto"  : _id is a generated ObjectId equal to no product id  *)
(***************************************************************************)
PrimaryLoc == "analyzed/analyzed"

\* the collections findAnalyzedReportAcrossDbs adds, in the order it adds them
SearchOrder ==
    <<"model", "analyzed/analyzed", "analyzed/Analyzed",
      "Analyzed/analyzed", "Analyzed/Analyzed",
      "default/analyzed", "default/Analyzed">>

\* getAnalyzedReportModel(): db "analyzed", collection "analyzed"
Physical(k) == IF k = "model" THEN PrimaryLoc ELSE k

InCol(k) == {r \in reports : r.loc = Physical(k)}

\* mutant: the ObjectId form of _id is not probed
ByObjectId_Skipped(k, id) == {}

ByObjectId(k, id) ==
    IF IsValidObjectId(id)
    THEN {r \in InCol(k) : r.idShape = "oid" /\ r.idRef = id}
    ELSE {}

ByString(k, id) == {r \in InCol(k) : r.idShape = "str" /\ r.idRef = id}

ByEjson(k, id) == {r \in InCol(k) : r.idShape = "ejson" /\ r.idRef = id}

\* col.findOne({ productUrl }) when productUrl is truthy
ByUrl(k, url) ==
    IF url # NoUrl
    THEN {r \in InCol(k) : r.productUrl = url}
    ELSE {}

\* what one turn of the loop over the collections can return ({} : nothing)
ProbeCollection(k, id, url) ==
    IF ByObjectId(k, id) # {} THEN ByObjectId(k, id)
    ELSE IF ByString(k, id) # {} THEN ByString(k, id)
    ELSE IF ByEjson(k, id) # {} THEN ByEjson(k, id)
    ELSE ByUrl(k, url)

RECURSIVE ProbeFrom(_, _, _)
ProbeFrom(i, id, url) ==
    IF i > Len(SearchOrder) THEN {}
    ELSE IF ProbeCollection(SearchOrder[i], id, url) # {}
         THEN ProbeCollection(SearchOrder[i], id, url)
         ELSE ProbeFrom(i + 1, id, url)

\* the documents findAnalyzedReportAcrossDbs can return ({} : it returns null)
findAnalyzedReportAcrossDbs(id, url) == ProbeFrom(1, id, url)

\* findOne(filter).sort({ createdAt: -1 }): a match created last
Latest(S) == {r \in S : \A q \in S : q.createdAt <= r.createdAt}

\* AnalyzedReport.findOne({ productId: id }) on the model's collection
FindByProductId(id) == {r \in InCol("model") : r.productId = id}

\* AnalyzedReport.findOne({ productUrl: url }) on the model's collection
FindByProductUrl(url) == {r \in InCol("model") : r.productUrl = url}

(***************************************************************************)
(* Poll: GET /api/products/:id/analytics.  PollAnswers(id) is the set of   *)
(* answers the handler can give in the current state.                      *)
(***************************************************************************)
\* report: the storage key of the report document returned as data (0: none);
\* data: the inline data of the embedded sub-record
Answer(id, http, layer, status, report, data) ==
    [id |-> id, http |-> http, layer |-> layer, status |-> status,
     report |-> report, data |-> data]

PollAnswers(id) ==
    IF ~IsValidObjectId(id) THEN {Answer(id, 500, "error", None, 0, NoData)}
    ELSE IF id \notin DOMAIN products THEN {Answer(id, 404, "notfound", None, 0, NoData)}
    ELSE LET p == products[id]
             across == findAnalyzedReportAcrossDbs(id, p.url)
             byPid == Latest(FindByProductId(id))
             byUrl == IF p.url # NoUrl
                      THEN Latest(FindByProductUrl(p.url)) ELSE {}
         IN  IF across # {}
             THEN {Answer(id, 200, "across", "complete", r.key, NoData) : r \in across}
             ELSE IF byPid # {}
             THEN {Answer(id, 200, "productId", "complete", r.key, NoData) : r \in byPid}
             ELSE IF byUrl # {}
             THEN {Answer(id, 200, "productUrl", "complete", r.key, NoData) : r \in byUrl}
             ELSE {Answer(id, 200, "embedded", p.analytics.status, 0, p.analytics.data)}

Poll(id) ==
    /\ poll' \in PollAnswers(id)
    /\ UNCHANGED <<products, reports, clock, webhookUrl, secret, trig, cb, runs,
                   look, canon, fire, client>>

(***************************************************************************)
(* Trigger: POST /api/products/:id/analytics[?force=1].  The handler runs  *)
(* in three steps, one per group of awaited store calls:                   *)
(*   TriggerRead  : Product.findById (404 / 500, or a snapshot is taken)   *)
(*   TriggerCheck : the report lookups and the decisions taken from the    *)
(*                  snapshot (early answers, or the update is issued)      *)
(*   TriggerWrite : Product.updateOne applied, fetch() dispatched without  *)
(*                  awaiting it, 202 answered                              *)
(***************************************************************************)
Slots == 1..MaxTriggers

\* snapStatus / snapRequestedAt: analytics.status and analytics.requestedAt of the
\* document findById returned (the status is kept once the request is answered);
\* now: Date.now() of the decision; after: the requests that had been answered
\* when this one arrived
FreeSlot ==
    [pc |-> "free", id |-> None, force |-> FALSE,
     snapStatus |-> None, snapRequestedAt |-> NoTime, now |-> NoTime,
     http |-> 0, status |-> None, retriggered |-> FALSE, disp |-> "none",
     after |-> {}]

Respond(t, http, status, retriggered) ==
    [t EXCEPT !.pc = "done", !.http = http, !.status = status,
              !.retriggered = retriggered, !.snapRequestedAt = NoTime]

\* getRequestedAtMs(value): null for an unset value, else its time in ms
getRequestedAtMs(value) == IF value = NoTime THEN NoTime ELSE value * TickMs

\* mutant: every pending sub-record counts as fresh, whatever its age
isFreshPending_AnyPending(status, requestedAt, nowTicks) == status = "pending"

\* mutant: the window comparison the wrong way round
isFreshPending_Flipped(status, requestedAt, nowTicks) ==
    /\ status = "pending"
    /\ getRequestedAtMs(requestedAt) # NoTime
    /\ nowTicks * TickMs - getRequestedAtMs(requestedAt)
          > DEFAULT_POLL_SHOULD_RETRIGGER_AFTER_MS

isFreshPending(status, requestedAt, nowTicks) ==
    /\ status = "pending"
    /\ getRequestedAtMs(requestedAt) # NoTime
    /\ nowTicks * TickMs - getRequestedAtMs(requestedAt)
          < DEFAULT_POLL_SHOULD_RETRIGGER_AFTER_MS

TriggerRead(s, id, force) ==
    /\ trig[s].pc = "free"
    /\ \A t \in Slots : t < s => trig[t].pc # "free"
    /\ LET t0 == [trig[s] EXCEPT !.id = id, !.force = force,
                     !.after = {t \in Slots : trig[t].pc = "done"}]
       IN  trig' = [trig EXCEPT ![s] =
                IF ~IsValidObjectId(id) THEN Respond(t0, 500, None, FALSE)
                ELSE IF id \notin DOMAIN products THEN Respond(t0, 404, None, FALSE)
                ELSE [t0 EXCEPT !.pc = "check",
                        !.snapStatus = products[id].analytics.status,
                        !.snapRequestedAt = products[id].analytics.requestedAt]]
    /\ UNCHANGED <<products, reports, clock, webhookUrl, secret, cb, poll, runs,
                   look, canon, fire, client>>

\* mutant: only the probe across the locations, no query by the productId field
ReportExists_AcrossOnly(id) ==
    findAnalyzedReportAcrossDbs(id, products[id].url) # {}

\* a report already exists (lines 236-245); product.url of the snapshot is the
\* stored url, which no operation changes
ReportExists(id) ==
    \/ findAnalyzedReportAcrossDbs(id, products[id].url) # {}
    \/ FindByProductId(id) # {}

\* mutant: without a webhook URL the request goes on to the dispatch
TriggerCheck_NoPollOnly(s) ==
    /\ trig[s].pc = "check"
    /\ LET t == [trig[s] EXCEPT !.now = clock]
       IN  trig' = [trig EXCEPT ![s] =
                IF ~t.force /\ ReportExists(t.id)
                THEN Respond(t, 200, "complete", FALSE)
                ELSE IF ~t.force
                        /\ isFreshPending(t.snapStatus, t.snapRequestedAt, clock)
                THEN Respond(t, 202, "pending", FALSE)
                ELSE [t EXCEPT !.pc = "write"]]
    /\ UNCHANGED <<products, reports, clock, webhookUrl, secret, cb, poll, runs,
                   look, canon, fire, client>>

\* mutant: force=1 is ignored
TriggerCheck_ForceIgnored(s) ==
    /\ trig[s].pc = "check"
    /\ LET t == [trig[s] EXCEPT !.now = clock]
       IN  trig' = [trig EXCEPT ![s] =
                IF ReportExists(t.id)
                THEN Respond(t, 200, "complete", FALSE)
                ELSE IF ~webhookUrl THEN Respond(t, 202, "pending", FALSE)
                ELSE IF isFreshPending(t.snapStatus, t.snapRequestedAt, clock)
                THEN Respond(t, 202, "pending", FALSE)
                ELSE [t EXCEPT !.pc = "write"]]
    /\ UNCHANGED <<products, reports, clock, webhookUrl, secret, cb, poll, runs,
                   look, canon, fire, client>>

TriggerCheck(s) ==
    /\ trig[s].pc = "check"
    /\ LET t == [trig[s] EXCEPT !.now = clock]
       IN  trig' = [trig EXCEPT ![s] =
                IF ~t.force /\ ReportExists(t.id)
                THEN Respond(t, 200, "complete", FALSE)
                ELSE IF ~webhookUrl THEN Respond(t, 202, "pending", FALSE)
                ELSE IF ~t.force
                        /\ isFreshPending(t.snapStatus, t.snapRequestedAt, clock)
                THEN Respond(t, 202, "pending", FALSE)
                ELSE [t EXCEPT !.pc = "write"]]
    /\ UNCHANGED <<products, reports, clock, webhookUrl, secret, cb, poll, runs,
                   look, canon, fire, client>>

\* mutant: the trigger leaves completedAt and error as they are
SetPending_KeepsOutcome(p, now) ==
    [p EXCEPT !.analytics = [@ EXCEPT !.status = "pending", !.requestedAt = now],
              !.updatedAt = now]

\* $set of analytics.status / requestedAt / completedAt / error (lines 280-290)
SetPending(p, now) ==
    [p EXCEPT !.analytics =
                 [@ EXCEPT !.status = "pending", !.requestedAt = now,
                           !.completedAt = NoTime, !.error = None],
              !.updatedAt = now]

\* Product.updateOne({ _id: id }, ...) matches a document
Matched(id) == id \in DOMAIN products

TriggerWrite(s) ==
    /\ trig[s].pc = "write"
    /\ products' = IF Matched(trig[s].id)
                   THEN [products EXCEPT ![trig[s].id] = SetPending(@, trig[s].now)]
                   ELSE products
    /\ trig' = [trig EXCEPT ![s] =
                  [Respond(trig[s], 202, "pending", TRUE) EXCEPT !.disp = "inflight"]]
    /\ UNCHANGED <<reports, clock, webhookUrl, secret, cb, poll, runs, look,
                   canon, fire, client>>

\* the detached fetch() settles with a response: nothing is written
DispatchDelivered(s) ==
    /\ trig[s].disp = "inflight"
    /\ trig' = [trig EXCEPT ![s].disp = "delivered"]
    /\ UNCHANGED <<products, reports, clock, webhookUrl, secret, cb, poll, runs,
                   look, canon, fire, client>>

\* mutant: the .catch handler sets the status alone
SetDispatchFailed_StatusOnly(p, now) ==
    [p EXCEPT !.analytics = [@ EXCEPT !.status = "failed"], !.updatedAt = now]

\* $set of the .catch handler (lines 303-313)
SetDispatchFailed(p, now) ==
    [p EXCEPT !.analytics =
                 [@ EXCEPT !.status = "failed", !.completedAt = now,
                           !.error = "fetch failed"],
              !.updatedAt = now]

\* the detached fetch() rejects: the .catch handler marks the sub-record failed
DispatchFail(s) ==
    /\ trig[s].disp = "inflight"
    /\ trig' = [trig EXCEPT ![s].disp = "failed"]
    /\ products' = IF Matched(trig[s].id)
                   THEN [products EXCEPT ![trig[s].id] = SetDispatchFailed(@, clock)]
                   ELSE products
    /\ UNCHANGED <<reports, clock, webhookUrl, secret, cb, poll, runs, look,
                   canon, fire, client>>

\* Time passes.  A tick is five minutes: a request handler that has started
\* gives its answer within the tick, the detached fetch() may stay in flight.
Tick ==
    /\ clock < MaxClock
    /\ cb.pc = "idle"
    /\ \A s \in Slots : trig[s].pc \in {"free", "done"}
    /\ clock' = clock + 1
    /\ UNCHANGED <<products, reports, webhookUrl, secret, trig, cb, poll, runs,
                   look, canon, fire, client>>

(***************************************************************************)
(* Callback receiver: POST /api/products/report-callback.                  *)
(*   CallbackReceive : authentication, body checks, the update is built;   *)
(*                     a success with an object payload upserts the report *)
(*                     (first awaited write), any other accepted request   *)
(*                     goes straight to the Product update                 *)
(*   CallbackFinish  : Product.updateOne after the report upsert, and the  *)
(*                     answer (404 when nothing matched)                   *)
(***************************************************************************)
Headers == {"", "s3cret", "wrong"}

DataInputs ==
    { NoData,
      [kind |-> "object", wrapped |-> FALSE, c |-> 1, pid |-> None],
      [kind |-> "object", wrapped |-> FALSE, c |-> 2, pid |-> "p2"],
      [kind |-> "object", wrapped |-> TRUE,  c |-> 2, pid |-> None],
      [kind |-> "scalar", wrapped |-> FALSE, c |-> 1, pid |-> None],
      [kind |-> "scalar", wrapped |-> TRUE,  c |-> 1, pid |-> None] }

\* request bodies: productId None stands for a missing or blank productId.
\* Of the bodies that are failures only one carries data, and a body without
\* productId carries nothing else.
Bodies ==
    {b \in [productId : {None, "p1", "p2"}, status : {None, "complete", "failed"},
            error : {None, "", "boom"}, data : DataInputs] :
        /\ (b.status = "failed" \/ b.error = "boom") =>
              \/ b.data = NoData
              \/ (b.status = None /\ b.data.c = 1 /\ b.data.kind = "object"
                    /\ ~b.data.wrapped)
        /\ b.status = "complete" => b.error = "boom"
        /\ b.productId = None => (b.status = None /\ b.error = None /\ b.data = NoData)}

\* JavaScript truthiness of body.error: a missing or empty string is falsy
Truthy(x) == x # None /\ x # ""

\* body.status === "failed" || !!body.error
isFailed(b) == b.status = "failed" \/ Truthy(b.error)

\* the bodies of a workflow run for product p1: a report, or a failure
WorkflowBodies ==
    { [productId |-> "p1", status |-> None, error |-> None,
       data |-> [kind |-> "object", wrapped |-> FALSE, c |-> 1, pid |-> None]],
      [productId |-> "p1", status |-> "failed", error |-> None, data |-> NoData] }

\* body.data ?? {}
Raw(b) == IF b.data.kind = "unset" THEN EmptyObject ELSE b.data

\* raw.analytics_payload when raw is an object that has one, else raw
analyticsPayload(raw) ==
    IF raw.wrapped THEN [raw EXCEPT !.wrapped = FALSE] ELSE raw

IsObject(d) == d.wrapped \/ d.kind = "object"

\* mutant: only body.status decides the failure
BuildUpdate_StatusOnly(b, now) ==
    [completedAt |-> now,
     status |-> IF b.status = "failed" THEN "failed" ELSE "complete",
     error |-> IF b.status = "failed"
               THEN (IF Truthy(b.error) THEN b.error ELSE "Workflow failed")
               ELSE None,
     hasData |-> b.status # "failed",
     data |-> IF b.status = "failed" THEN NoData ELSE Raw(b)]

\* the `update` record of the handler (lines 39-47)
BuildUpdate(b, now) ==
    [completedAt |-> now,
     status |-> IF isFailed(b) THEN "failed" ELSE "complete",
     error |-> IF isFailed(b)
               THEN (IF Truthy(b.error) THEN b.error ELSE "Workflow failed")
               ELSE None,
     hasData |-> ~isFailed(b),
     data |-> IF isFailed(b) THEN NoData ELSE Raw(b)]

ApplyUpdate(p, u) ==
    [p EXCEPT !.analytics =
                 [@ EXCEPT !.completedAt = u.completedAt, !.status = u.status,
                           !.error = u.error,
                           !.data = IF u.hasData THEN u.data ELSE @],
              !.updatedAt = u.completedAt]

\* { productId, ...analyticsPayload }: a productId of the payload wins
SetFields(r, pid, payload) ==
    [r EXCEPT !.productId = IF payload.pid # None THEN payload.pid ELSE pid,
              !.content = IF payload.c = 0 THEN @ ELSE payload.c]

NewReport(loc, idShape, idRef, productId, productUrl, content, now) ==
    [key |-> Cardinality(reports) + 1, loc |-> loc, idShape |-> idShape,
     idRef |-> idRef, productId |-> productId, productUrl |-> productUrl,
     content |-> content, createdAt |-> now]

\* AnalyzedReport.updateOne({ productId }, { $set: ... }, { upsert: true }):
\* the report stores it can leave
UpsertReport(pid, payload, now) ==
    IF FindByProductId(pid) # {}
    THEN {(reports \ {r}) \cup {SetFields(r, pid, payload)} :
              r \in FindByProductId(pid)}
    ELSE {reports \cup
            {SetFields(NewReport(PrimaryLoc, "auto", None, pid, NoUrl, 0, now),
                       pid, payload)}}

\* Product.updateOne({ _id: productId }, { $set: update }) and the answer
WriteProduct(pid, u) ==
    IF ~IsValidObjectId(pid)
    THEN /\ products' = products
         /\ cb' = [pc |-> "idle", productId |-> None, update |-> None, http |-> 500]
    ELSE /\ products' = IF Matched(pid)
                        THEN [products EXCEPT ![pid] = ApplyUpdate(@, u)]
                        ELSE products
         /\ cb' = [pc |-> "idle", productId |-> None, update |-> None,
                   http |-> IF Matched(pid) THEN 200 ELSE 404]

\* mutant: a request without the header passes
Authorized_MissingPasses(h) == secret = "" \/ h = secret \/ h = ""

\* the shared-secret check; h: req.headers.get("x-n8n-secret") || ""
Authorized(h) == secret = "" \/ h = secret

CallbackReceive(h, b) ==
    /\ cb.pc = "idle"
    /\ IF ~Authorized(h)
       THEN /\ cb' = [cb EXCEPT !.http = 401]
            /\ UNCHANGED <<products, reports>>
       ELSE IF b.productId = None
       THEN /\ cb' = [cb EXCEPT !.http = 400]
            /\ UNCHANGED <<products, reports>>
       ELSE IF ~isFailed(b) /\ IsObject(analyticsPayload(Raw(b)))
       THEN /\ FindByProductId(b.productId) = {} => Cardinality(reports) < MaxReports
            /\ reports' \in UpsertReport(b.productId, analyticsPayload(Raw(b)), clock)
            /\ cb' = [pc |-> "product", productId |-> b.productId,
                      update |-> BuildUpdate(b, clock), http |-> 0]
            /\ UNCHANGED products
       ELSE /\ WriteProduct(b.productId, BuildUpdate(b, clock))
            /\ UNCHANGED reports
    /\ UNCHANGED <<clock, webhookUrl, secret, trig, poll, runs, look, canon,
                   fire, client>>

CallbackFinish ==
    /\ cb.pc = "product"
    /\ WriteProduct(cb.productId, cb.update)
    /\ UNCHANGED <<reports, clock, webhookUrl, secret, trig, poll, runs, look,
                   canon, fire, client>>

(***************************************************************************)
(* The product identity store: the scrape action (scrapeAndStoreProduct)   *)
(* and the lookup route (GET /api/products/lookup?url=).                   *)
(*   ScrapeStart   : the workflow's answer: an error, an empty body, or a  *)
(*                   product payload carrying a url                        *)
(*   ScrapeLookup  : empty body: findOne over the candidates of the        *)
(*                   submitted URL                                         *)
(*   ScrapeFind    : payload: findOne({ url }) for the price history       *)
(*   ScrapeUpsert  : findOneAndUpdate({ url }, ..., { upsert: true }), the *)
(*                   store looks for the document to update                *)
(*   ScrapeInsert  : no document matched: the store inserts, under the     *)
(*                   unique index on url                                   *)
(***************************************************************************)
Runs == 1..MaxRuns

\* the ids the store gives to new documents, in the order it gives them
ProductIds == <<"p1", "p2", "p3">>

Prices == {10, 20}

IdleRun ==
    [pc |-> "idle", mode |-> None, url |-> NoUrl, price |-> 0, attempt |-> 0,
     hasSeen |-> FALSE, seen |-> <<>>, result |-> None, productId |-> None]

Finish(run, result, productId) ==
    [run EXCEPT !.pc = "done", !.result = result, !.productId = productId]

\* Product.find({ url }): the ids of the documents stored under this very string
WithUrl(url) == {id \in DOMAIN products : products[id].url = url}

\* Product.findOne({ url: { $in: urlList } }): the documents it can return
WithAnyUrl(urlList) == {id \in DOMAIN products : products[id].url \in urlList}

\* mutant: no unique index on url
UrlTaken_NoIndex(url) == FALSE

\* the unique index on url refuses a second document with this url
UrlTaken(url) == WithUrl(url) # {}

FreeIds == {i \in 1..Len(ProductIds) : ProductIds[i] \notin DOMAIN products}

NextId == ProductIds[CHOOSE i \in FreeIds : \A j \in FreeIds : i <= j]

\* the workflow's answers
Responses ==
    {[kind |-> "error", url |-> NoUrl, price |-> 0],
     [kind |-> "empty", url |-> NoUrl, price |-> 0]}
    \cup {[kind |-> "payload", url |-> u, price |-> c] :
              u \in {ItemUrl, ItemUrl \o <<"/">>}, c \in Prices}

\* primaryUrl: the submitted URL without fragment, query and trailing slash
PrimaryUrl(input) ==
    IF CanParse(Trim(input))
    THEN StripTrailingSlash(toString(NoSearch(NoHash(ParseUrl(Trim(input))))))
    ELSE Trim(input)

ScrapeStart(r, productUrl, resp) ==
    /\ runs[r].pc = "idle"
    /\ \A q \in Runs : q < r => runs[q].pc # "idle"
    /\ runs' = [runs EXCEPT ![r] =
          IF productUrl = NoUrl THEN Finish(@, None, None)
          ELSE IF resp.kind = "error" THEN Finish(@, "failed", None)
          ELSE IF resp.kind = "empty"
          THEN [@ EXCEPT !.pc = "lookup", !.mode = "placeholder", !.url = productUrl]
          ELSE [@ EXCEPT !.pc = "find", !.mode = "payload", !.url = resp.url,
                         !.price = resp.price]]
    /\ UNCHANGED <<products, reports, clock, webhookUrl, secret, trig, cb, poll,
                   look, canon, fire, client>>

ScrapeLookup(r) ==
    /\ runs[r].pc = "lookup"
    /\ IF WithAnyUrl(BaseCandidates(runs[r].url)) # {}
       THEN \E id \in WithAnyUrl(BaseCandidates(runs[r].url)) :
               runs' = [runs EXCEPT ![r] = Finish(@, "complete", id)]
       ELSE runs' = [runs EXCEPT ![r] =
                        [@ EXCEPT !.pc = "upsert", !.url = PrimaryUrl(runs[r].url)]]
    /\ UNCHANGED <<products, reports, clock, webhookUrl, secret, trig, cb, poll,
                   look, canon, fire, client>>

\* for (attempt = 0; attempt < 12; attempt += 1)
MaxAttempts == 12

\* mutant: a product that never appears is reported as a failure
Exhausted_Failed(run) == Finish(run, "failed", None)

\* the loop has run out: the action answers queued
Exhausted(run) == Finish(run, "queued", None)

\* one round of the polling loop of the empty-body branch: findOne over the
\* candidates; a hit returns complete, a miss sleeps 1 s and counts the
\* attempt, and the miss of the last attempt leaves the loop
ScrapePoll(r) ==
    /\ runs[r].pc = "lookup"
    /\ IF WithAnyUrl(BaseCandidates(runs[r].url)) # {}
       THEN \E id \in WithAnyUrl(BaseCandidates(runs[r].url)) :
               runs' = [runs EXCEPT ![r] = Finish(@, "complete", id)]
       ELSE runs' = [runs EXCEPT ![r] =
                        IF runs[r].attempt + 1 < MaxAttempts
                        THEN [@ EXCEPT !.attempt = @ + 1]
                        ELSE Exhausted([@ EXCEPT !.attempt = @ + 1])]
    /\ UNCHANGED <<products, reports, clock, webhookUrl, secret, trig, cb, poll,
                   look, canon, fire, client>>

ScrapeFind(r) ==
    /\ runs[r].pc = "find"
    /\ IF WithUrl(runs[r].url) # {}
       THEN \E id \in WithUrl(runs[r].url) :
               runs' = [runs EXCEPT ![r] =
                  [@ EXCEPT !.pc = "upsert", !.hasSeen = TRUE,
                            !.seen = products[id].priceHistory]]
       ELSE runs' = [runs EXCEPT ![r].pc = "upsert"]
    /\ UNCHANGED <<products, reports, clock, webhookUrl, secret, trig, cb, poll,
                   look, canon, fire, client>>

\* mutant: the upsert replaces the matched document by the payload
UpdatedBy_Replace(run, p) ==
    [NewProduct(p.url, run.price, Append(run.seen, run.price), IdleAnalytics)
       EXCEPT !.updatedAt = clock]

\* the update applied to a matched document: the payload's fields (with the
\* history built from the document read earlier), or nothing but the
\* timestamp ($setOnInsert)
UpdatedBy(run, p) ==
    IF run.mode = "payload"
    THEN LET updatedPriceHistory == Append(run.seen, run.price)
         IN  [p EXCEPT
                !.currentPrice = run.price,
                !.priceHistory = IF run.hasSeen THEN updatedPriceHistory ELSE @,
                !.lowestPrice = IF run.hasSeen
                                THEN getLowestPrice(updatedPriceHistory)
                                ELSE run.price,
                !.highestPrice = IF run.hasSeen
                                 THEN getHighestPrice(updatedPriceHistory)
                                 ELSE run.price,
                !.averagePrice = IF run.hasSeen
                                 THEN getAveragePrice(updatedPriceHistory)
                                 ELSE run.price,
                !.updatedAt = clock]
    ELSE [p EXCEPT !.updatedAt = clock]

\* the document inserted when none matched
InsertedBy(run, now) ==
    [(IF run.mode = "payload"
      THEN NewProduct(run.url, run.price,
                      IF run.hasSeen THEN Append(run.seen, run.price) ELSE <<>>,
                      IdleAnalytics)
      ELSE NewProduct(run.url, 0, <<0>>,
                      [IdleAnalytics EXCEPT !.status = "pending",
                                            !.requestedAt = now]))
     EXCEPT !.updatedAt = now]

\* the store updates the document stored under the run's url
UpdateMatched(r) ==
    \E id \in WithUrl(runs[r].url) :
        /\ products' = [products EXCEPT ![id] = UpdatedBy(runs[r], @)]
        /\ runs' = [runs EXCEPT ![r] = Finish(@, "complete", id)]

ScrapeUpsert(r) ==
    /\ runs[r].pc = "upsert"
    /\ IF WithUrl(runs[r].url) # {}
       THEN UpdateMatched(r)
       ELSE /\ runs' = [runs EXCEPT ![r].pc = "insert"]
            /\ UNCHANGED products
    /\ UNCHANGED <<reports, clock, webhookUrl, secret, trig, cb, poll, look,
                   canon, fire, client>>

\* the insert of the upsert: refused by the unique index when a concurrent
\* upsert has stored the url meanwhile; the store then retries the operation as
\* an update, or the duplicate-key error reaches the action's catch block
ScrapeInsert(r) ==
    /\ runs[r].pc = "insert"
    /\ IF UrlTaken(runs[r].url)
       THEN \/ UpdateMatched(r)
            \/ /\ runs' = [runs EXCEPT ![r] = Finish(@, "failed", None)]
               /\ UNCHANGED products
       ELSE /\ FreeIds # {}
            /\ products' = [id \in DOMAIN products \cup {NextId} |->
                              IF id = NextId THEN InsertedBy(runs[r], clock)
                              ELSE products[id]]
            /\ runs' = [runs EXCEPT ![r] = Finish(@, "complete", NextId)]
    /\ UNCHANGED <<reports, clock, webhookUrl, secret, trig, cb, poll, look,
                   canon, fire, client>>

NoLook ==
    [pc |-> "idle", url |-> NoUrl, http |-> 0, found |-> FALSE, productId |-> None]

LookupAnswer(url, http, found, productId) ==
    [pc |-> "done", url |-> url, http |-> http, found |-> found,
     productId |-> productId]

\* mutant: every host is resolved
canResolve_AnyHost(url) == TRUE

\* the short-link hosts the route resolves: amzn.to and its subdomains
canResolve(url) == CanParse(Trim(url)) /\ ParseUrl(Trim(url)).host = "amzn.to"

Lookup(url) ==
    /\ look.pc # "resolving"
    /\ IF Trim(url) = <<>>
       THEN look' = LookupAnswer(url, 400, FALSE, None)
       ELSE IF WithAnyUrl(Range(buildUrlCandidates(url))) # {}
       THEN \E id \in WithAnyUrl(Range(buildUrlCandidates(url))) :
               look' = LookupAnswer(url, 200, TRUE, id)
       ELSE IF canResolve(url)
       THEN look' = [NoLook EXCEPT !.pc = "resolving", !.url = url]
       ELSE look' = LookupAnswer(url, 200, FALSE, None)
    /\ UNCHANGED <<products, reports, clock, webhookUrl, secret, trig, cb, poll,
                   runs, canon, fire, client>>

\* fetch(url) has followed the redirects to resolvedUrl (NoUrl: it failed)
LookupResolved(resolvedUrl) ==
    /\ look.pc = "resolving"
    /\ LET merged == Range(buildUrlCandidates(look.url))
                         \cup Range(buildUrlCandidates(resolvedUrl))
       IN  IF resolvedUrl # NoUrl /\ resolvedUrl # look.url /\ WithAnyUrl(merged) # {}
           THEN \E id \in WithAnyUrl(merged) :
                   look' = LookupAnswer(look.url, 200, TRUE, id)
           ELSE look' = LookupAnswer(look.url, 200, FALSE, None)
    /\ UNCHANGED <<products, reports, clock, webhookUrl, secret, trig, cb, poll,
                   runs, canon, fire, client>>

(***************************************************************************)
(* The fire-and-return scrape trigger: POST /api/products/scrape calls     *)
(* triggerScrapeProduct, which posts the URL to the workflow's webhook     *)
(* with a budget of 8 s and classifies what comes back.                    *)
(***************************************************************************)
(* A JSON value of a response body: t is "undef" (absent or null), "num",   *)
(* "str" with the text s, or "obj" with the fields f.                       *)
Undef == [t |-> "undef", s |-> "", f |-> [k \in {} |-> 0]]
Num == [t |-> "num", s |-> "", f |-> [k \in {} |-> 0]]
Str(text) == [t |-> "str", s |-> text, f |-> [k \in {} |-> 0]]
Obj(key, value) == [t |-> "obj", s |-> "", f |-> [k \in {key} |-> value]]

\* value[key]
Get(value, key) ==
    IF value.t = "obj" /\ key \in DOMAIN value.f THEN value.f[key] ELSE Undef

\* the text of a JSON document { "productId": "p1" }
JsonText == "{\"productId\":\"p1\"}"

\* the bodies the webhook answers with: scalars, objects with one field, and
\* such objects nested under one more field
Values ==
    LET leaves == {Undef, Num} \cup
                  {Str(x) : x \in {"", "  ", "p1", " p1 ", "ok", JsonText}}
        objects == {Obj(k, v) : k \in {"productId", "productID", "id", "_id"},
                                v \in leaves}
    IN  leaves \cup objects
        \cup {Obj(k, v) : k \in {"data", "result", "payload", "items"}, v \in objects}

RECURSIVE extractProductId(_)
extractProductId(value) ==
    LET trim(x) == IF x = " p1 " THEN "p1" ELSE IF x = "  " THEN "" ELSE x
        pick(v) == IF v.t = "str" THEN trim(v.s) ELSE ""
        or(x, y) == IF x # "" THEN x ELSE y
    IN  IF value.t = "str"
        THEN IF pick(value) = "p1" THEN pick(value)
             ELSE IF value.s = JsonText
             THEN extractProductId(Obj("productId", Str("p1")))
             ELSE ""
        ELSE IF value.t # "obj" THEN ""
        ELSE LET direct == or(pick(Get(value, "productId")),
                              or(pick(Get(value, "productID")),
                                 pick(Get(value, "id"))))
             IN  IF direct # "" THEN direct
                 ELSE or(extractProductId(Get(value, "data")),
                         or(extractProductId(Get(value, "result")),
                            extractProductId(Get(value, "payload"))))

\* what axios.post settles with: a response of any status (validateStatus is
\* always true), or an error with a message; cause says what went wrong
Replies ==
    {[kind |-> "response", status |-> st, data |-> d, message |-> <<>>,
      cause |-> None] : st \in {200, 204, 302, 404, 500}, d \in Values}
    \cup
    {[kind |-> "error", status |-> 0, data |-> Undef, message |-> e[2],
      cause |-> e[1]] :
        e \in { <<"timeout", <<"timeout", "of", "8000ms", "exceeded">>>>,
                <<"redirects", <<"Maximum", "number", "of", "redirects", "exceeded">>>>,
                <<"refused", <<"connect", "ECONNREFUSED">>>>,
                <<"reset", <<"socket", "hang", "up">>>>,
                <<"reset", <<>>>> }}

\* /timeout|timed out|exceeded|ECONNABORTED/i.test(message)
isTimeout(message) ==
    \E i \in 1..Len(message) :
        message[i] \in {"timeout", "Timeout", "exceeded", "ECONNABORTED"}
        \/ (i < Len(message) /\ message[i] = "timed" /\ message[i + 1] = "out")

TriggerScrapeResult(ok, queued, productId, error) ==
    [ok |-> ok, queued |-> queued, productId |-> productId, error |-> error]

triggerScrapeProduct(url, reply) ==
    IF url = NoUrl THEN TriggerScrapeResult(FALSE, FALSE, "", <<"Missing URL">>)
    ELSE IF reply.kind = "response"
    THEN IF reply.status >= 200 /\ reply.status < 300
         THEN IF extractProductId(reply.data) # ""
              THEN TriggerScrapeResult(TRUE, FALSE, extractProductId(reply.data), <<>>)
              ELSE TriggerScrapeResult(TRUE, TRUE, "", <<>>)
         ELSE TriggerScrapeResult(FALSE, FALSE, "",
                  IF reply.data.t = "str" /\ reply.data.s \notin {"", "  "}
                  THEN <<reply.data.s>>
                  ELSE <<"Workflow trigger failed">>)
    ELSE IF isTimeout(reply.message)
    THEN TriggerScrapeResult(TRUE, TRUE, "", <<>>)
    ELSE TriggerScrapeResult(FALSE, FALSE, "",
             IF reply.message # <<>> THEN reply.message
             ELSE <<"Failed to reach workflow">>)

NoFire ==
    [pc |-> "done", url |-> NoUrl, reply |-> None, http |-> 0, status |-> None,
     productId |-> ""]

\* POST /api/products/scrape answers
PostScrape ==
    /\ fire.pc = "call"
    /\ fire' =
          IF Trim(fire.url) = <<>>
          THEN [fire EXCEPT !.pc = "done", !.http = 400, !.status = "failed"]
          ELSE LET trigger == triggerScrapeProduct(fire.url, fire.reply)
               IN  IF ~trigger.ok
                   THEN [fire EXCEPT !.pc = "done", !.http = 502, !.status = "failed"]
                   ELSE IF ~trigger.queued /\ trigger.productId # ""
                   THEN [fire EXCEPT !.pc = "done", !.http = 200, !.status = "complete",
                                     !.productId = trigger.productId]
                   ELSE [fire EXCEPT !.pc = "done", !.http = 200, !.status = "queued"]
    /\ UNCHANGED <<products, reports, clock, webhookUrl, secret, trig, cb, poll,
                   runs, look, canon, client>>

\* nothing was given to buildUrlCandidates yet
NoCanon == [pc |-> "done", input |-> NoUrl, out |-> <<>>]

(***************************************************************************)
(* The ProductAnalytics component, as the browser runs it.                 *)
(*   started   : the ref that guards the trigger effect                    *)
(*   interval  : setInterval(load, 4000) is armed                          *)
(*   cancelled : the flag the cleanup of the poll effect sets              *)
(*   posts     : trigger POSTs issued; posting: one awaits its response    *)
(*   gets      : poll GETs issued; inflight: those awaiting a response     *)
(*   analytics : the status last stored by setAnalytics                    *)
(***************************************************************************)
NoClient ==
    [mounted |-> FALSE, started |-> FALSE, interval |-> FALSE,
     cancelled |-> FALSE, posts |-> 0, posting |-> FALSE, gets |-> 0,
     inflight |-> 0, analytics |-> "idle", triggerError |-> FALSE]

\* load(): the GET is sent
LoadIssued(c) == [c EXCEPT !.gets = @ + 1, !.inflight = @ + 1]

\* the component mounts: the trigger effect posts once, the poll effect
\* loads and arms the interval
Mount ==
    /\ client = NoClient
    /\ client' = LoadIssued([client EXCEPT !.mounted = TRUE, !.started = TRUE,
                                           !.posts = @ + 1, !.posting = TRUE,
                                           !.interval = TRUE])
    /\ UNCHANGED <<products, reports, clock, webhookUrl, secret, trig, cb, poll,
                   runs, look, canon, fire>>

\* the trigger's response: a status that is not ok sets the error banner
TriggerAnswered(ok) ==
    /\ client.posting
    /\ client' = [client EXCEPT !.posting = FALSE, !.triggerError = ~ok]
    /\ UNCHANGED <<products, reports, clock, webhookUrl, secret, trig, cb, poll,
                   runs, look, canon, fire>>

\* 4 s have passed: the interval calls load()
IntervalFires ==
    /\ client.interval
    /\ client.gets < MaxLoads
    /\ client' = LoadIssued(client)
    /\ UNCHANGED <<products, reports, clock, webhookUrl, secret, trig, cb, poll,
                   runs, look, canon, fire>>

\* a poll response arrives: stored unless it is not ok or the effect was
\* cleaned up meanwhile
LoadAnswered(ok, status) ==
    /\ client.inflight > 0
    /\ client' = [client EXCEPT
                     !.inflight = @ - 1,
                     !.analytics = IF ok /\ ~client.cancelled THEN status ELSE @]
    /\ UNCHANGED <<products, reports, clock, webhookUrl, secret, trig, cb, poll,
                   runs, look, canon, fire>>

\* the cleanup of the poll effect
Unmount ==
    /\ client.mounted
    /\ client' = [client EXCEPT !.mounted = FALSE, !.cancelled = TRUE,
                                !.interval = FALSE]
    /\ UNCHANGED <<products, reports, clock, webhookUrl, secret, trig, cb, poll,
                   runs, look, canon, fire>>

(***************************************************************************)
(* The analytics state machine of one stored product: trigger requests,    *)
(* the detached dispatch, the callbacks of the workflow, and the clock.    *)
(***************************************************************************)
IdleCallback == [pc |-> "idle", productId |-> None, update |-> None, http |-> 0]

NoPoll == Answer(None, 0, None, None, 0, NoData)

Init ==
    /\ \E a \in {IdleAnalytics, PlaceholderAnalytics} :
          products = [i \in {"p1"} |-> NewProduct(ItemUrl, 0, <<>>, a)]
    /\ reports = {}
    /\ clock = 0
    /\ webhookUrl \in BOOLEAN
    /\ secret = "s3cret"
    /\ trig = [s \in Slots |-> FreeSlot]
    /\ cb = IdleCallback
    /\ poll = NoPoll
    /\ runs = [r \in Runs |-> IdleRun]
    /\ look = NoLook
    /\ client = NoClient
    /\ fire = NoFire
    /\ canon = NoCanon

Next ==
    \/ \E s \in Slots, force \in BOOLEAN : TriggerRead(s, "p1", force)
    \/ \E s \in Slots : TriggerCheck(s)
    \/ \E s \in Slots : TriggerWrite(s)
    \/ \E s \in Slots : DispatchDelivered(s)
    \/ \E s \in Slots : DispatchFail(s)
    \/ \E h \in {"s3cret", "wrong"}, b \in WorkflowBodies : CallbackReceive(h, b)
    \/ CallbackFinish
    \/ Tick

Spec == Init /\ [][Next]_vars

(***************************************************************************)
(* The callback receiver under every request: any header and body, with    *)
(* or without a configured secret.                                         *)
(***************************************************************************)
CallbackBodies == {b \in Bodies : b.productId # "p2"}

InitCallback ==
    /\ \E a \in {IdleAnalytics, PlaceholderAnalytics} :
          products = [i \in {"p1"} |-> NewProduct(ItemUrl, 0, <<>>, a)]
    /\ reports = {}
    /\ clock = 0
    /\ webhookUrl = TRUE
    /\ secret \in {"", "s3cret"}
    /\ trig = [s \in Slots |-> FreeSlot]
    /\ cb = IdleCallback
    /\ poll = NoPoll
    /\ runs = [r \in Runs |-> IdleRun]
    /\ look = NoLook
    /\ client = NoClient
    /\ fire = NoFire
    /\ canon = NoCanon

NextCallback ==
    \/ \E h \in Headers, b \in CallbackBodies : CallbackReceive(h, b)
    \/ CallbackFinish

SpecCallback == InitCallback /\ [][NextCallback]_vars

(***************************************************************************)
(* The three routes asked about any id: stored, not stored, no ObjectId.   *)
(***************************************************************************)
RouteBodies ==
    {b \in Bodies : /\ b.productId # None
                    /\ b.status # "complete"
                    /\ b.error = None
                    /\ b.data.c <= 1 /\ ~b.data.wrapped /\ b.data.kind # "scalar"}

NextRoutes ==
    \/ \E id \in Ids, force \in BOOLEAN : TriggerRead(1, id, force)
    \/ TriggerCheck(1)
    \/ TriggerWrite(1)
    \/ \E h \in Headers, b \in RouteBodies : CallbackReceive(h, b)
    \/ CallbackFinish
    \/ \E id \in Ids : Poll(id)

SpecRoutes == InitCallback /\ [][NextRoutes]_vars

(***************************************************************************)
(* Polling against a report store that the external workflow fills: it     *)
(* writes report documents of its own shape into any of the locations the  *)
(* poll searches.                                                          *)
(***************************************************************************)
InsertLocs == {PrimaryLoc, "Analyzed/Analyzed", "default/analyzed"}

\* the shapes of _id: the product's id in one of three forms, or a generated one
IdForms == {<<"oid", "p1">>, <<"str", "p1">>, <<"ejson", "p1">>, <<"auto", None>>}

\* the workflow stores a report; _id is unique within a collection
InsertReport(loc, form, productId, productUrl) ==
    /\ Cardinality(reports) < MaxReports
    /\ form[1] # "auto" =>
          ~ \E r \in reports : r.loc = loc /\ r.idShape = form[1] /\ r.idRef = form[2]
    /\ reports' = reports \cup
          {NewReport(loc, form[1], form[2], productId, productUrl, 1, clock)}
    /\ UNCHANGED <<products, clock, webhookUrl, secret, trig, cb, poll, runs,
                   look, canon, fire, client>>

InitPoll ==
    /\ products = [i \in {"p1"} |-> NewProduct(ItemUrl, 0, <<>>, IdleAnalytics)]
    /\ reports = {}
    /\ clock = 0
    /\ webhookUrl = TRUE
    /\ secret = "s3cret"
    /\ trig = [s \in Slots |-> FreeSlot]
    /\ cb = IdleCallback
    /\ poll = NoPoll
    /\ runs = [r \in Runs |-> IdleRun]
    /\ look = NoLook
    /\ client = NoClient
    /\ fire = NoFire
    /\ canon = NoCanon

NextPoll ==
    \/ \E loc \in InsertLocs, form \in IdForms, pid \in {None, "p1"},
          url \in {NoUrl, ItemUrl} : InsertReport(loc, form, pid, url)
    \/ \E id \in Ids : Poll(id)
    \/ Tick

SpecPoll == InitPoll /\ [][NextPoll]_vars

(***************************************************************************)
(* One trigger request against a report store that the external workflow  *)
(* fills with documents of its own shape.                                  *)
(***************************************************************************)
NextReports ==
    \/ \E loc \in InsertLocs, form \in IdForms, pid \in {None, "p1"},
          url \in {NoUrl, ItemUrl} : InsertReport(loc, form, pid, url)
    \/ \E force \in BOOLEAN : TriggerRead(1, "p1", force)
    \/ TriggerCheck(1)
    \/ TriggerWrite(1)
    \/ DispatchDelivered(1)
    \/ DispatchFail(1)

SpecReports == InitPoll /\ [][NextReports]_vars

(***************************************************************************)
(* The identity store under scrape submissions of differently spelled URLs *)
(* of one item, running concurrently, and lookups.                         *)
(***************************************************************************)
SubmitUrls == {ItemUrl, ItemUrl \o <<"/">>, ItemUrl \o <<"?tag=1">>}

LookupUrls == {<<Space>> \o ItemUrl, ItemUrl \o <<"/", "#reviews">>, OtherUrl}

InitStore ==
    /\ products = [i \in {} |-> NewProduct(NoUrl, 0, <<>>, IdleAnalytics)]
    /\ reports = {}
    /\ clock = 0
    /\ webhookUrl = TRUE
    /\ secret = "s3cret"
    /\ trig = [s \in Slots |-> FreeSlot]
    /\ cb = IdleCallback
    /\ poll = NoPoll
    /\ runs = [r \in Runs |-> IdleRun]
    /\ look = NoLook
    /\ client = NoClient
    /\ fire = NoFire
    /\ canon = NoCanon

NextStore ==
    \/ \E r \in Runs, u \in SubmitUrls, resp \in Responses : ScrapeStart(r, u, resp)
    \/ \E r \in Runs : ScrapeLookup(r)
    \/ \E r \in Runs : ScrapeFind(r)
    \/ \E r \in Runs : ScrapeUpsert(r)
    \/ \E r \in Runs : ScrapeInsert(r)
    \/ \E u \in LookupUrls : Lookup(u)

SpecStore == InitStore /\ [][NextStore]_vars

(***************************************************************************)
(* Lookups against a store whose documents were written at different       *)
(* times: payload submissions, clock ticks, plain and short-link lookups.  *)
(***************************************************************************)
ShortUrl == <<"https://", "amzn.to", "/", "item">>

\* what fetch(url, { redirect: "follow" }) ends on: nothing (it failed), the
\* short link itself, or the item's page
Resolutions == {NoUrl, ShortUrl, ItemUrl \o <<"/">>}

NextLookup ==
    \/ \E r \in Runs, u \in SubmitUrls, resp \in Responses :
          resp.kind = "payload" /\ ScrapeStart(r, u, resp)
    \/ \E r \in Runs : ScrapeFind(r)
    \/ \E r \in Runs : ScrapeUpsert(r)
    \/ \E r \in Runs : ScrapeInsert(r)
    \/ \E u \in LookupUrls \cup {ShortUrl} : Lookup(u)
    \/ \E resolvedUrl \in Resolutions : LookupResolved(resolvedUrl)
    \/ Tick

SpecLookup == InitStore /\ [][NextLookup]_vars

(***************************************************************************)
(* Re-scrapes of a stored product: the workflow returns a payload for the  *)
(* url of a document that already holds price samples, the submissions run *)
(* concurrently, and time passes.                                          *)
(***************************************************************************)
StoredHistory == <<10>>

InitRescrape ==
    /\ products = [i \in {"p1"} |->
                      NewProduct(ItemUrl, 10, StoredHistory, IdleAnalytics)]
    /\ reports = {}
    /\ clock = 0
    /\ webhookUrl = TRUE
    /\ secret = "s3cret"
    /\ trig = [s \in Slots |-> FreeSlot]
    /\ cb = IdleCallback
    /\ poll = NoPoll
    /\ runs = [r \in Runs |-> IdleRun]
    /\ look = NoLook
    /\ client = NoClient
    /\ fire = NoFire
    /\ canon = NoCanon

NextRescrape ==
    \/ \E r \in Runs, resp \in Responses :
          resp.kind = "payload" /\ resp.url = ItemUrl /\ ScrapeStart(r, ItemUrl, resp)
    \/ \E r \in Runs : ScrapeFind(r)
    \/ \E r \in Runs : ScrapeUpsert(r)
    \/ Tick

SpecRescrape == InitRescrape /\ [][NextRescrape]_vars

(***************************************************************************)
(* Synchronous submissions whose workflow answers with an empty body poll  *)
(* the store while payload submissions of the same item write to it.  The  *)
(* runtime resumes every action whose await has settled, hence the weak    *)
(* fairness of each run's steps.                                           *)
(***************************************************************************)
NextPolling ==
    \/ \E r \in Runs, u \in SubmitUrls, resp \in Responses : ScrapeStart(r, u, resp)
    \/ \E r \in Runs : ScrapePoll(r)
    \/ \E r \in Runs : ScrapeFind(r)
    \/ \E r \in Runs : ScrapeUpsert(r)
    \/ \E r \in Runs : ScrapeInsert(r)

SpecPolling ==
    /\ InitStore
    /\ [][NextPolling]_vars
    /\ \A r \in Runs :
          /\ WF_vars(ScrapePoll(r))
          /\ WF_vars(ScrapeFind(r))
          /\ WF_vars(ScrapeUpsert(r))
          /\ WF_vars(ScrapeInsert(r))

(***************************************************************************)
(* One mount of the ProductAnalytics component, under every answer of the  *)
(* two endpoints it calls.                                                 *)
(***************************************************************************)
NextClient ==
    \/ Mount
    \/ \E ok \in BOOLEAN : TriggerAnswered(ok)
    \/ IntervalFires
    \/ \E ok \in BOOLEAN, status \in {"idle", "pending", "complete", "failed"} :
          LoadAnswered(ok, status)
    \/ Unmount

SpecClient == InitStore /\ [][NextClient]_vars

(***************************************************************************)
(* Re-scrapes of a stored product interleaved with the analytics requests  *)
(* for it: a trigger with its detached dispatch, and the callbacks of the  *)
(* workflow.                                                               *)
(***************************************************************************)
NextInterleave ==
    \/ \E r \in Runs, resp \in Responses :
          resp.kind = "payload" /\ resp.url = ItemUrl /\ ScrapeStart(r, ItemUrl, resp)
    \/ \E r \in Runs : ScrapeFind(r)
    \/ \E r \in Runs : ScrapeUpsert(r)
    \/ \E force \in BOOLEAN : TriggerRead(1, "p1", force)
    \/ TriggerCheck(1)
    \/ TriggerWrite(1)
    \/ DispatchDelivered(1)
    \/ DispatchFail(1)
    \/ \E b \in WorkflowBodies : CallbackReceive("s3cret", b)
    \/ CallbackFinish

SpecInterleave == InitRescrape /\ [][NextInterleave]_vars

(***************************************************************************)
(* Triggers, forced or not, and polls of one stored product whose workflow *)
(* calls back with a report, with a payload that is no object (it is kept  *)
(* inline only), or with a failure.                                        *)
(***************************************************************************)
InlineBodies ==
    WorkflowBodies \cup
    { [productId |-> "p1", status |-> None, error |-> None,
       data |-> [kind |-> "scalar", wrapped |-> FALSE, c |-> 1, pid |-> None]] }

NextAgree ==
    \/ \E s \in Slots, force \in BOOLEAN : TriggerRead(s, "p1", force)
    \/ \E s \in Slots : TriggerCheck(s)
    \/ \E s \in Slots : TriggerWrite(s)
    \/ \E b \in InlineBodies : CallbackReceive("s3cret", b)
    \/ CallbackFinish
    \/ Poll("p1")

SpecAgree == InitPoll /\ [][NextAgree]_vars

(***************************************************************************)
(* The canonicalizer alone, applied to every URL string of the grammar     *)
(* with at most MaxSegments path segments, padded with blanks or not, and  *)
(* to strings that are no URL.                                             *)
(***************************************************************************)
\* the paths of at most n segments, without a trailing slash
RECURSIVE SegPaths(_)
SegPaths(n) ==
    IF n = 0 THEN {<<>>}
    ELSE LET shorter == SegPaths(n - 1)
         IN  shorter \cup {p \o <<"/", g>> : p \in shorter, g \in Segments}

Paths == SegPaths(MaxSegments) \cup {p \o <<"/">> : p \in SegPaths(MaxSegments)}

WellFormed ==
    { pad \o <<sch>> \o w \o <<h>> \o p \o q \o f \o pad :
        pad \in {<<>>, <<Space>>}, sch \in Schemes, w \in {<<>>, <<"www.">>},
        h \in HostNames, p \in Paths,
        q \in {<<>>} \cup {<<x>> : x \in Queries},
        f \in {<<>>} \cup {<<x>> : x \in Fragments} }

\* strings new URL() rejects, the empty one and blank ones among them
Malformed ==
    { <<>>, <<Space>>, <<Space, Space>>, <<"item">>, <<Space, "item", Space>>,
      <<"https://">>, <<"shop.example", "/", "item">>,
      <<"https://", "shop.example", Space, "/", "item">> }

\* the call of buildUrlCandidates(input) returns
Canonicalize ==
    /\ canon.pc = "call"
    /\ canon' = [canon EXCEPT !.pc = "done", !.out = buildUrlCandidates(canon.input)]
    /\ UNCHANGED <<products, reports, clock, webhookUrl, secret, trig, cb, poll,
                   runs, look, fire, client>>

InitCanon ==
    /\ products = [i \in {} |-> NewProduct(NoUrl, 0, <<>>, IdleAnalytics)]
    /\ reports = {}
    /\ clock = 0
    /\ webhookUrl = TRUE
    /\ secret = "s3cret"
    /\ trig = [s \in Slots |-> FreeSlot]
    /\ cb = IdleCallback
    /\ poll = NoPoll
    /\ runs = [r \in Runs |-> IdleRun]
    /\ look = NoLook
    /\ client = NoClient
    /\ fire = NoFire
    /\ \E input \in WellFormed \cup Malformed :
          canon = [pc |-> "call", input |-> input, out |-> <<>>]

NextCanon == Canonicalize

SpecCanon == InitCanon /\ [][NextCanon]_vars

(***************************************************************************)
(* The scrape trigger alone, under every reply of the webhook.             *)
(***************************************************************************)
InitFire ==
    /\ products = [i \in {} |-> NewProduct(NoUrl, 0, <<>>, IdleAnalytics)]
    /\ reports = {}
    /\ clock = 0
    /\ webhookUrl = TRUE
    /\ secret = "s3cret"
    /\ trig = [s \in Slots |-> FreeSlot]
    /\ cb = IdleCallback
    /\ poll = NoPoll
    /\ runs = [r \in Runs |-> IdleRun]
    /\ look = NoLook
    /\ client = NoClient
    /\ canon = NoCanon
    /\ \E url \in {NoUrl, <<Space>>, ItemUrl}, reply \in Replies :
          fire = [NoFire EXCEPT !.pc = "call", !.url = url, !.reply = reply]

NextFire == PostScrape

SpecFire == InitFire /\ [][NextFire]_vars

(***************************************************************************)
(*                               CLAIMS                                    *)
(***************************************************************************)
Analytics(id) == products[id].analytics

\* a non-forced trigger request for product p1 that dispatched the webhook
DispatchedNonForced(a) ==
    /\ trig[a].pc = "done" /\ trig[a].id = "p1" /\ ~trig[a].force
    /\ trig[a].retriggered

\* b is a non-forced trigger for p1 that arrived after a had been answered and
\* decided less than the freshness window after a's request time
FollowsWithinWindow(a, b) ==
    /\ trig[b].pc = "done" /\ trig[b].id = "p1" /\ ~trig[b].force
    /\ a \in trig[b].after
    /\ (trig[b].now - trig[a].now) * TickMs < DEFAULT_POLL_SHOULD_RETRIGGER_AFTER_MS

Dispatches(S) == Cardinality({s \in S : trig[s].disp # "none"})

\* C1 (as stated): with a webhook URL configured and no report stored, a non-forced Trigger(P) that
\* dispatched, followed within the freshness window by a second non-forced
\* Trigger(P), gives one dispatch in total and retriggered: false for the
\* second call, whatever became of the first dispatch.
C1_TriggerIdempotency_Original ==
    \A a, b \in Slots :
        (webhookUrl /\ ~ReportExists("p1")
           /\ DispatchedNonForced(a) /\ FollowsWithinWindow(a, b))
            => (~trig[b].retriggered /\ Dispatches({a, b}) = 1)

\* C1 (amended): the same, for a second call that reads the sub-record while it
\* is still pending (the first dispatch has not failed and no failure was called
\* back): one dispatch in total, and the second call answers retriggered: false.
\* A second call that reads the sub-record as failed dispatches again and
\* answers retriggered: true.
C1_TriggerIdempotency ==
    \A a, b \in Slots :
        (webhookUrl /\ ~ReportExists("p1")
           /\ DispatchedNonForced(a) /\ FollowsWithinWindow(a, b))
            => /\ trig[b].snapStatus = "pending" =>
                    (~trig[b].retriggered /\ Dispatches({a, b}) = 1)
               /\ trig[b].snapStatus = "failed" =>
                    (trig[b].retriggered /\ Dispatches({a, b}) = 2)

C1_Witness ==
    \E a, b \in Slots :
        /\ webhookUrl /\ ~ReportExists("p1")
        /\ DispatchedNonForced(a) /\ FollowsWithinWindow(a, b)
        /\ trig[b].snapStatus = "pending"
        /\ trig[a].disp = "delivered"
        /\ trig[b].now > trig[a].now
        /\ trig[b].http = 202 /\ ~trig[b].retriggered

\* the stored reports whose _id is the product's id, in one of its three forms
IdMatches(id) == {r \in reports : r.idShape # "auto" /\ r.idRef = id}

\* C2: when a report whose _id is P's id (ObjectId form) is stored in the primary
\* report location and a different report matches P only by its productId field,
\* Poll(P) answers complete with the primary _id-matched report as data.
C2_ReportPrecedence ==
    [][\A id \in DOMAIN products :
          \A r \in {x \in reports : x.loc = PrimaryLoc /\ x.idShape = "oid"
                                       /\ x.idRef = id} :
             ((\E q \in reports \ IdMatches(id) : q.productId = id) /\ Poll(id))
                => (poll'.http = 200 /\ poll'.status = "complete"
                      /\ poll'.report = r.key)]_vars

\* polled: the primary _id match was returned although a report with a matching
\* productId field (and no matching _id) is stored, here or elsewhere
C2_Witness ==
    /\ poll.id = "p1" /\ poll.http = 200 /\ poll.status = "complete"
    /\ \E r \in reports :
          /\ r.key = poll.report
          /\ r.loc = PrimaryLoc /\ r.idShape = "oid" /\ r.idRef = "p1"
          /\ r.productId = None
    /\ \E q \in reports \ IdMatches("p1") : q.productId = "p1" /\ q.loc # PrimaryLoc

\* the layer a stored report matches product id at: 1 by _id (any location),
\* 2 by its productId field (in the report model's collection, the one place
\* that field is queried), 3 by its productUrl field (0: no match)
LayerOf(r, id) ==
    IF r \in IdMatches(id) THEN 1
    ELSE IF r.loc = PrimaryLoc /\ r.productId = id THEN 2
    ELSE IF r.productUrl = products[id].url THEN 3
    ELSE 0

\* C3: Poll(P) returns the first matching layer in the order _id match (any known
\* location), productId-field match, productUrl-field match, embedded sub-record:
\* the report returned matches at the highest layer any stored report matches at
\* (a productUrl match never wins over an _id or productId match), and the
\* sub-record is returned only when no report matches.
C3_PollLayerOrder ==
    [][\A id \in DOMAIN products :
          Poll(id) =>
             LET matching == {r \in reports : LayerOf(r, id) # 0}
             IN  IF matching = {}
                 THEN poll'.layer = "embedded"
                 ELSE \E r \in matching :
                        /\ poll'.report = r.key
                        /\ \A q \in matching : LayerOf(r, id) <= LayerOf(q, id)]_vars

AllowedTransitions ==
    { <<"idle", "pending">>, <<"pending", "complete">>, <<"pending", "failed">>,
      <<"complete", "pending">>, <<"failed", "pending">> }

\* C4: the embedded analytics status changes only along idle -> pending,
\* pending -> complete, pending -> failed, complete -> pending, failed -> pending.
C4_TransitionOrder ==
    [][Analytics("p1").status # Analytics("p1").status'
         => <<Analytics("p1").status, Analytics("p1").status'>> \in AllowedTransitions]_vars

\* C5: with a secret configured, a callback whose x-n8n-secret header is missing
\* or wrong is answered 401 and changes neither the products nor the reports,
\* whatever its body.
\* (Stated per step: a step that is not "401 and nothing changed" is not the
\* handling of a request with a missing or wrong header.)
C5_CallbackAuth ==
    [][secret # "" =>
          \/ (cb'.http = 401 /\ products' = products /\ reports' = reports)
          \/ ~ \E h \in Headers \ {secret}, b \in CallbackBodies :
                   CallbackReceive(h, b)]_vars

C5_Witness ==
    /\ secret # ""
    /\ cb.http = 401
    /\ reports = {}
    /\ \E a \in {IdleAnalytics, PlaceholderAnalytics} : Analytics("p1") = a

\* requests that pass the secret check
PassingHeaders == {h \in Headers : secret = "" \/ h = secret}

FailureBody(b) == b.status = "failed" \/ (b.error # None /\ b.error # "")

InlineData(b) == IF b.data.kind = "unset" THEN EmptyObject ELSE b.data

Unwrapped(d) == [d EXCEPT !.wrapped = FALSE]

FailedWith(b, a) ==
    [a EXCEPT !.status = "failed", !.completedAt = clock,
              !.error = IF b.error # None /\ b.error # "" THEN b.error
                        ELSE "Workflow failed"]

Contains(r, payload) == payload.c = 0 \/ r.content = payload.c

\* C6 (as stated): an authorized callback naming a stored product with status
\* "failed" or an error makes the sub-record failed with that error ("Workflow
\* failed" when none) and a completion time and writes no report; any other makes
\* it complete with error null and the payload inline, and the report store then
\* holds a report keyed by productId containing the unwrapped payload.
C6_CallbackEffects_Original ==
    [][/\ \A h \in PassingHeaders, b \in CallbackBodies :
            (b.productId \in DOMAIN products /\ CallbackReceive(h, b)) =>
               IF FailureBody(b)
               THEN /\ Analytics(b.productId)' = FailedWith(b, Analytics(b.productId))
                    /\ reports' = reports
               ELSE cb'.pc = "idle" =>
                    /\ Analytics(b.productId)'.status = "complete"
                    /\ Analytics(b.productId)'.error = None
                    /\ Analytics(b.productId)'.data = InlineData(b)
                    /\ \E r \in reports' :
                          /\ r.productId = b.productId
                          /\ Contains(r, Unwrapped(InlineData(b)))
       /\ (CallbackFinish /\ cb.productId \in DOMAIN products) =>
               /\ products'[cb.productId].analytics.status = "complete"
               /\ products'[cb.productId].analytics.error = None
               /\ products'[cb.productId].analytics.data = cb.update.data
               /\ \E r \in reports' :
                     /\ r.productId = cb.productId
                     /\ Contains(r, Unwrapped(cb.update.data))]_vars

ReportKey(pid, payload) == IF payload.pid # None THEN payload.pid ELSE pid

\* C6 (amended): the failure case as stated (an error counts when it is a
\* non-empty string); any other authorized callback makes the sub-record complete
\* with error null and body.data ({} when absent) inline, and the report store is
\* written only when the payload, one analytics_payload level unwrapped, is an
\* object: the report matching productId is then upserted with the payload's
\* fields before the Product is updated, a productId field of the payload
\* replacing the key; a non-object payload leaves the report store unwritten.
C6_CallbackEffects ==
    [][/\ \A h \in PassingHeaders, b \in CallbackBodies :
            (b.productId \in DOMAIN products /\ CallbackReceive(h, b)) =>
               IF FailureBody(b)
               THEN /\ Analytics(b.productId)' = FailedWith(b, Analytics(b.productId))
                    /\ reports' = reports
                    /\ cb'.http = 200
               ELSE IF Unwrapped(InlineData(b)).kind = "object"
               THEN /\ cb'.pc = "product"
                    /\ products' = products
                    /\ \E r \in reports' :
                          /\ r.loc = PrimaryLoc
                          /\ r.productId = ReportKey(b.productId, Unwrapped(InlineData(b)))
                          /\ Contains(r, Unwrapped(InlineData(b)))
               ELSE /\ cb'.pc = "idle" /\ cb'.http = 200
                    /\ Analytics(b.productId)' =
                          [Analytics(b.productId) EXCEPT
                              !.status = "complete", !.error = None,
                              !.completedAt = clock, !.data = InlineData(b)]
                    /\ reports' = reports
       /\ (CallbackFinish /\ cb.productId \in DOMAIN products) =>
               /\ products'[cb.productId].analytics =
                     [Analytics(cb.productId) EXCEPT
                         !.status = "complete", !.error = None,
                         !.completedAt = cb.update.completedAt,
                         !.data = cb.update.data]
               /\ cb.update.data.kind # "unset"
               /\ cb'.http = 200
               /\ reports' = reports
               /\ \E r \in reports :
                     /\ r.productId = ReportKey(cb.productId, Unwrapped(cb.update.data))
                     /\ Contains(r, Unwrapped(cb.update.data))]_vars

\* a wrapped report was called back and stored: inline data keeps the wrapper,
\* the report document holds the unwrapped payload
C6_Witness ==
    /\ cb = [IdleCallback EXCEPT !.http = 200]
    /\ Analytics("p1").status = "complete"
    /\ Analytics("p1").error = None
    /\ Analytics("p1").data.wrapped
    /\ \E r \in reports : r.productId = "p1" /\ r.content = Analytics("p1").data.c

UnknownIds == {id \in Ids : IsValidObjectId(id) /\ id \notin DOMAIN products}

\* C7: a Trigger, Poll or Callback request whose (well-formed) product id matches
\* no stored Product is answered 404 and changes neither the products nor the
\* reports, and Trigger dispatches nothing.
C7_NotFoundNoSideEffect ==
    [][/\ \A id \in UnknownIds, force \in BOOLEAN :
            TriggerRead(1, id, force) =>
               /\ trig'[1].http = 404 /\ trig'[1].disp = "none"
               /\ products' = products /\ reports' = reports
       /\ \A id \in UnknownIds :
            Poll(id) => (poll'.http = 404 /\ products' = products /\ reports' = reports)
       /\ \A h \in PassingHeaders, b \in RouteBodies :
            (b.productId \in UnknownIds /\ CallbackReceive(h, b)) =>
               /\ products' = products /\ reports' = reports
               /\ cb'.pc = "idle" => cb'.http = 404
       /\ (CallbackFinish /\ cb.productId \in UnknownIds) =>
               (cb'.http = 404 /\ products' = products /\ reports' = reports)]_vars

\* C8: no two distinct stored Products have canonically equivalent URLs (URLs
\* whose candidate sets share a string).
C8_CanonicalKeyUniqueness ==
    \A a, b \in DOMAIN products :
        a # b => Range(buildUrlCandidates(products[a].url))
                    \cap Range(buildUrlCandidates(products[b].url)) = {}

\* two runs of the scrape action whose payloads carry the same url, both over
RacedRuns(a, b) ==
    /\ a # b
    /\ runs[a].pc = "done" /\ runs[a].mode = "payload"
    /\ runs[b].pc = "done" /\ runs[b].mode = "payload"
    /\ runs[a].url = runs[b].url

\* C9: after two concurrent scrape runs whose payloads carry the same url, the
\* store holds exactly one Product with that url: each run either returns that
\* Product's id (it created it or merged into it) or was rejected, and no sibling
\* record exists.
C9_NoDuplicateCreation ==
    \A a, b \in Runs :
        RacedRuns(a, b) =>
            /\ Cardinality(WithUrl(runs[a].url)) = 1
            /\ \A r \in {a, b} :
                  \/ runs[r].result = "complete" /\ runs[r].productId \in WithUrl(runs[r].url)
                  \/ runs[r].result = "failed" /\ runs[r].productId = None

\* both runs found no document and went on to insert: one inserted, the other
\* was refused by the unique index and gave up
C9_Witness ==
    \E a, b \in Runs :
        /\ RacedRuns(a, b)
        /\ ~runs[a].hasSeen /\ ~runs[b].hasSeen
        /\ runs[a].result = "complete" /\ runs[b].result = "failed"
        /\ Cardinality(WithUrl(runs[a].url)) = 1

\* C10: a lookup of u answers found: false while no stored Product's url is among
\* u's candidates, and found: true with the id of a Product whose url is among
\* them once there is one, the same id on every later lookup of u; the lookup
\* changes nothing in the product store.
C10_IdempotentLookup ==
    [][\A u \in LookupUrls :
          Lookup(u) =>
             /\ products' = products
             /\ look'.found <=> WithAnyUrl(Range(buildUrlCandidates(u))) # {}
             /\ look'.found => look'.productId \in WithAnyUrl(Range(buildUrlCandidates(u)))
             /\ (look.found /\ look.url = u) =>
                   (look'.found /\ look'.productId = look.productId)]_vars

\* the documents of S no other document of S was updated after
MostRecent(S) ==
    {id \in S : \A o \in S : products[o].updatedAt <= products[id].updatedAt}

\* the answer names a most recently updated document of S whenever S has
\* more than one
AnswersMostRecent(S) ==
    Cardinality(S) > 1 => look'.found /\ look'.productId \in MostRecent(S)

(***************************************************************************)
(* C11  Duplicate-tolerant lookup.  When more than one stored Product has  *)
(* a url among the candidates the lookup queries with, the lookup answers  *)
(* found with the id of the most recently updated of them.                 *)
(***************************************************************************)
C11_DuplicateTolerantLookup ==
    [][ /\ \A u \in LookupUrls \cup {ShortUrl} :
              Lookup(u) => AnswersMostRecent(WithAnyUrl(Range(buildUrlCandidates(u))))
        /\ \A resolvedUrl \in Resolutions \ {NoUrl} :
              LookupResolved(resolvedUrl) /\ resolvedUrl # look.url =>
                  AnswersMostRecent(WithAnyUrl(Range(buildUrlCandidates(look.url))
                                       \cup Range(buildUrlCandidates(resolvedUrl))))
      ]_vars

\* the URL string s with its path replaced by p
WithPath(s, p) == SubSeq(s, 1, HostAt(s)) \o p \o SearchOf(s) \o HashOf(s)

FragmentVariants(s) ==
    IF HashOf(s) # <<>> THEN {SubSeq(s, 1, Len(s) - 1)}
    ELSE {s \o <<f>> : f \in Fragments}

SlashVariants(s) ==
    LET p == PathOf(s)
    IN  IF p # <<>> /\ p[Len(p)] = "/" THEN {WithPath(s, SubSeq(p, 1, Len(p) - 1))}
        ELSE {WithPath(s, p \o <<"/">>)}

RefVariants(s) ==
    LET p == PathOf(s)
    IN  IF ~isAmazonLike(ParseUrl(s)) THEN {}
        ELSE IF Len(p) >= 2 /\ p[Len(p)] \in RefSegments
        THEN {WithPath(s, SubSeq(p, 1, Len(p) - 2))}
        ELSE {WithPath(s, (IF p # <<>> /\ p[Len(p)] = "/" THEN p ELSE p \o <<"/">>)
                              \o <<g>>) : g \in RefSegments}

Variants(s) == FragmentVariants(s) \cup SlashVariants(s) \cup RefVariants(s)

(***************************************************************************)
(* C12  Canonicalization closure.  For a parseable URL u and a variant u'  *)
(* of it that differs only by an added or removed fragment, by a single    *)
(* trailing slash on the path or, on an Amazon-like host, by an added or   *)
(* removed trailing /ref=... path segment, buildUrlCandidates(u) and       *)
(* buildUrlCandidates(u') have a string in common.                         *)
(***************************************************************************)
C12_CanonicalizationClosure ==
    canon.pc = "done" /\ CanParse(Trim(canon.input)) =>
        \A v \in Variants(Trim(canon.input)) :
            Range(canon.out) \cap Range(buildUrlCandidates(v)) # {}

\* an Amazon-like URL with a /ref= segment, a query and a fragment was canonicalized
C12_Witness ==
    /\ canon.pc = "done"
    /\ canon.input = <<"https://", "www.", "amazon.in", "/", "dp", "/", "B0ABCDEFGH",
                       "/", "ref=sr", "?tag=1", "#reviews">>
    /\ <<"https://", "www.", "amazon.in", "/", "dp", "/", "B0ABCDEFGH">>
           \in Range(canon.out)

\* the positions of an ASIN of the path p, after /dp/ or /gp/product/
ProductIdAt(p) ==
    {i \in 1..Len(p) :
        /\ p[i] \in Asins
        /\ \/ i >= 3 /\ p[i - 2] = "dp"
           \/ i >= 5 /\ p[i - 4] = "gp" /\ p[i - 2] = "product"}

CanonicalFour(host, id) ==
    { <<"https://", host, "/", "dp", "/", id>>,
      <<"https://", "www.", host, "/", "dp", "/", id>>,
      <<"http://", host, "/", "dp", "/", id>>,
      <<"http://", "www.", host, "/", "dp", "/", id>> }

\* the URL string s with the ASINs of its path in the other letter case
OtherCase(s) ==
    [i \in 1..Len(s) |->
        IF i > HostAt(s) /\ s[i] = "B0ABCDEFGH" THEN "b0abcdefgh"
        ELSE IF i > HostAt(s) /\ s[i] = "b0abcdefgh" THEN "B0ABCDEFGH"
        ELSE s[i]]

(***************************************************************************)
(* C13  ASIN normalization.  On an Amazon-like host, a path containing     *)
(* /dp/<ID> or /gp/product/<ID>, the ID in any letter case, yields the     *)
(* four canonical candidates {http, https} x {host, www.host} followed by  *)
(* /dp/<ID in upper case>; an input that differs only in the case of the   *)
(* ID or in a trailing slash yields the same four.                         *)
(***************************************************************************)
C13_AsinNormalization ==
    LET s == Trim(canon.input)
    IN  ( /\ canon.pc = "done"
          /\ CanParse(s)
          /\ isAmazonLike(ParseUrl(s))
          /\ ProductIdAt(PathOf(s)) # {} ) =>
            LET four == CanonicalFour(ParseUrl(s).host, "B0ABCDEFGH")
            IN  /\ four \subseteq Range(canon.out)
                /\ \A v \in {OtherCase(s)} \cup SlashVariants(s) :
                      four \subseteq Range(buildUrlCandidates(v))

\* a /gp/product/ URL with a lower-case ID on a www. host was canonicalized
C13_Witness ==
    /\ canon.pc = "done"
    /\ canon.input = <<"http://", "www.", "amazon.in", "/", "gp", "/", "product", "/",
                       "b0abcdefgh", "/">>
    /\ <<"https://", "amazon.in", "/", "dp", "/", "B0ABCDEFGH">> \in Range(canon.out)

\* the first position of the string c in the list
FirstAt(list, c) == CHOOSE i \in 1..Len(list) : list[i] = c /\ \A j \in 1..(i - 1) : list[j] # c

(***************************************************************************)
(* C14  Canonicalizer output contract.  buildUrlCandidates returns for     *)
(* every input.  Empty or blank input gives the empty list.  Otherwise the *)
(* list has no duplicates and no empty strings, its first element is the   *)
(* trimmed input, and its elements stand in the order of their discovery;  *)
(* when the trimmed input does not parse the list is exactly <<trimmed>>.  *)
(***************************************************************************)
C14_OutputContract ==
    LET trimmed == Trim(canon.input)
        out == canon.out
    IN  canon.pc = "done" =>
          /\ trimmed = <<>> => out = <<>>
          /\ trimmed # <<>> =>
                /\ out # <<>> /\ out[1] = trimmed
                /\ \A i, j \in 1..Len(out) : i # j => out[i] # out[j]
                /\ \A i \in 1..Len(out) : out[i] # <<>>
          /\ trimmed # <<>> /\ ~CanParse(trimmed) => out = <<trimmed>>
          /\ CanParse(trimmed) =>
                LET found == <<trimmed>> \o Discovered(ParseUrl(trimmed))
                IN  /\ Range(out) = Range(found)
                    /\ \A i, j \in 1..Len(out) :
                          i < j => FirstAt(found, out[i]) < FirstAt(found, out[j])

\* a padded /dp/ URL was canonicalized: of the eight strings discovered, five
\* repeat the trimmed input
C14_Witness ==
    /\ canon.pc = "done"
    /\ canon.input = <<Space, "https://", "amazon.in", "/", "dp", "/", "B0ABCDEFGH", Space>>
    /\ Len(canon.out) = 4
    /\ canon.out[1] = <<"https://", "amazon.in", "/", "dp", "/", "B0ABCDEFGH">>

(***************************************************************************)
(* C15  Fire-and-return outcome classification.  A webhook call made for a *)
(* non-blank URL has exactly one outcome: a 2xx response carrying a        *)
(* product identifier gives complete with that id, a 2xx response without  *)
(* one gives queued, a non-2xx response gives failed, a timeout without a  *)
(* response gives queued, and any other transport error gives failed.      *)
(***************************************************************************)
C15_OutcomeClassification ==
    fire.pc = "done" /\ Trim(fire.url) # <<>> =>
        LET reply == fire.reply
            ok == reply.kind = "response" /\ reply.status \in 200..299
            id == extractProductId(reply.data)
        IN  /\ ok /\ id # "" => fire.status = "complete" /\ fire.productId = id
            /\ ok /\ id = "" => fire.status = "queued"
            /\ reply.kind = "response" /\ ~ok => fire.status = "failed"
            /\ reply.kind = "error" /\ reply.cause = "timeout" => fire.status = "queued"
            /\ reply.kind = "error" /\ reply.cause # "timeout" => fire.status = "failed"

\* the stored reports of product id, as the claim counts them
ReportsOf(id) ==
    {r \in reports :
        \/ r.idShape # "auto" /\ r.idRef = id
        \/ r.loc = PrimaryLoc /\ r.productId = id
        \/ r.productUrl # NoUrl /\ r.productUrl = products[id].url}

(***************************************************************************)
(* C16  An existing report makes Trigger a no-op.  A non-forced Trigger(P) *)
(* decided while a report for P is stored (its _id is P's id in any known  *)
(* location, or its productId field is P's id, or its productUrl is P's    *)
(* url) answers { status: complete, retriggered: false }, dispatches       *)
(* nothing and leaves P's analytics sub-record unchanged.                  *)
(***************************************************************************)
C16_ExistingReportNoOp ==
    [][\A s \in Slots :
          ( /\ trig[s].pc = "check"
            /\ ~trig[s].force
            /\ ReportsOf(trig[s].id) # {}
            /\ TriggerCheck(s) ) =>
              /\ trig'[s].pc = "done"
              /\ trig'[s].http = 200
              /\ trig'[s].status = "complete"
              /\ ~trig'[s].retriggered
              /\ trig'[s].disp = "none"
              /\ products' = products
      ]_vars

\* a non-forced trigger was answered complete while the only report of the
\* product was one matched by its productId field
C16_Witness ==
    \E s \in Slots :
        /\ trig[s].pc = "done" /\ ~trig[s].force /\ trig[s].status = "complete"
        /\ reports # {}
        /\ \A r \in reports :
              r.idShape = "auto" /\ r.productId = "p1" /\ r.productUrl = NoUrl

\* the sub-record this request read is pending with a requestedAt younger than
\* the window at the time of the decision
ReadFreshPending(s) ==
    /\ trig[s].snapStatus = "pending"
    /\ trig[s].snapRequestedAt # NoTime
    /\ (clock - trig[s].snapRequestedAt) * TickMs < DEFAULT_POLL_SHOULD_RETRIGGER_AFTER_MS

\* the request is answered { status: pending, retriggered: false } with 202,
\* nothing is dispatched and no Product changes
AnsweredWithoutDispatch(s) ==
    /\ trig'[s].pc = "done" /\ trig'[s].http = 202
    /\ trig'[s].status = "pending" /\ ~trig'[s].retriggered
    /\ trig'[s].disp = "none"
    /\ products' = products

\* the sub-record is set pending with the time of the decision, completedAt and
\* error cleared, the webhook call is issued and the request is answered
\* { status: pending, retriggered: true } with 202
WrittenAndDispatched(s) ==
    /\ Analytics(trig[s].id)' =
          [Analytics(trig[s].id) EXCEPT !.status = "pending", !.requestedAt = clock,
                                        !.completedAt = NoTime, !.error = None]
    /\ trig'[s].disp = "inflight"
    /\ trig'[s].pc = "done" /\ trig'[s].http = 202
    /\ trig'[s].status = "pending" /\ trig'[s].retriggered

\* C17: with a webhook URL configured and no stored report, a non-forced
\* Trigger(P) skips the dispatch exactly when the sub-record it read is pending
\* with a requestedAt less than DEFAULT_POLL_SHOULD_RETRIGGER_AFTER_MS old: it
\* then answers { pending, retriggered: false } and changes nothing; in every
\* other sub-record state, a stale pending included, it goes on to set pending
\* with a new requestedAt and to dispatch.
C17_FreshPendingRule ==
    [][\A s \in Slots :
          /\ ( /\ trig[s].pc = "check" /\ ~trig[s].force
               /\ webhookUrl /\ ReportsOf(trig[s].id) = {}
               /\ TriggerCheck(s) ) =>
                 IF ReadFreshPending(s) THEN AnsweredWithoutDispatch(s)
                 ELSE trig'[s].pc = "write" /\ products' = products
          /\ (trig[s].pc = "write" /\ ~trig[s].force /\ TriggerWrite(s)) =>
                 ~ReadFreshPending(s) /\ WrittenAndDispatched(s)
      ]_vars

\* a non-forced trigger that read a pending sub-record two ticks old dispatched
\* again, and one that read a fresh pending sub-record did not
C17_Witness ==
    \E a, b \in Slots :
        /\ webhookUrl /\ reports = {}
        /\ trig[a].pc = "done" /\ ~trig[a].force /\ trig[a].snapStatus = "pending"
        /\ trig[a].retriggered /\ trig[a].now = 2
        /\ trig[b].pc = "done" /\ ~trig[b].force /\ trig[b].snapStatus = "pending"
        /\ ~trig[b].retriggered /\ trig[b].http = 202

\* C18: a dispatching Trigger(P) writes the sub-record { pending, requestedAt:
\* now, completedAt: null, error: null }, issues the webhook call and answers
\* { pending, retriggered: true } with 202 while the call is still in flight;
\* when the call fails to dispatch, the sub-record becomes { failed,
\* completedAt: the time of the failure, error: the reason }.
\* (The failure of the dispatch is the step at which fetch() rejects; the
\* handler's write belongs to that step.)
C18_DispatchProtocol ==
    [][\A s \in Slots :
          /\ TriggerWrite(s) => WrittenAndDispatched(s)
          /\ DispatchFail(s) =>
                /\ trig[s].pc = "done" /\ trig[s].http = 202 /\ trig[s].retriggered
                /\ Analytics(trig[s].id)' =
                      [Analytics(trig[s].id) EXCEPT !.status = "failed",
                                                    !.completedAt = clock,
                                                    !.error = "fetch failed"]
      ]_vars

\* a trigger was answered 202 at tick 0, its webhook call failed a tick later
\* and the sub-record is failed since
C18_Witness ==
    \E s \in Slots :
        /\ trig[s].pc = "done" /\ trig[s].http = 202 /\ trig[s].retriggered
        /\ trig[s].disp = "failed" /\ trig[s].now = 0
        /\ Analytics("p1").status = "failed"
        /\ Analytics("p1").requestedAt = 0
        /\ Analytics("p1").completedAt = 1
        /\ Analytics("p1").error = "fetch failed"

\* C19: without a webhook URL and without a stored report, Trigger(P), forced
\* or not, answers { status: pending, retriggered: false } with 202, dispatches
\* nothing and leaves P's sub-record unchanged.
C19_PollOnlyMode ==
    [][\A s \in Slots :
          ( /\ trig[s].pc = "check"
            /\ ~webhookUrl /\ ReportsOf(trig[s].id) = {}
            /\ TriggerCheck(s) ) => AnsweredWithoutDispatch(s)
      ]_vars

\* a forced trigger was answered pending without a dispatch: no webhook URL, no
\* report, sub-record still idle
C19_Witness ==
    \E s \in Slots :
        /\ ~webhookUrl /\ reports = {}
        /\ trig[s].pc = "done" /\ trig[s].force
        /\ trig[s].http = 202 /\ trig[s].status = "pending" /\ ~trig[s].retriggered
        /\ trig[s].disp = "none"
        /\ Analytics("p1").status = "idle"

\* C20: with a webhook URL configured, Trigger(P) with force=1 sets the
\* sub-record pending with a new requestedAt and dispatches the webhook in every
\* state of P (a report exists, pending within the window, complete, failed),
\* and answers { status: pending, retriggered: true }.
C20_ForcedRetrigger ==
    [][\A s \in Slots :
          /\ (trig[s].pc = "check" /\ trig[s].force /\ webhookUrl /\ TriggerCheck(s)) =>
                trig'[s].pc = "write" /\ trig'[s].force /\ products' = products
          /\ (trig[s].pc = "write" /\ trig[s].force /\ TriggerWrite(s)) =>
                WrittenAndDispatched(s)
      ]_vars

\* a forced trigger dispatched although a report was stored and the sub-record
\* it read was complete
C20_Witness ==
    \E s \in Slots :
        /\ webhookUrl /\ ReportsOf("p1") # {}
        /\ trig[s].pc = "done" /\ trig[s].force /\ trig[s].snapStatus = "complete"
        /\ trig[s].http = 202 /\ trig[s].retriggered /\ trig[s].disp = "inflight"
        /\ Analytics("p1").status = "pending"
        /\ Analytics("p1").requestedAt = trig[s].now

(***************************************************************************)
(* C21                                                                     *)
(***************************************************************************)
IsPrefix(a, b) == Len(a) <= Len(b) /\ SubSeq(b, 1, Len(a)) = a

\* run r returns complete for the stored document id in this step
Rescraped(r, id) ==
    /\ runs[r].pc # "done" /\ runs[r].mode = "payload"
    /\ runs'[r].pc = "done" /\ runs'[r].result = "complete"
    /\ runs'[r].productId = id

\* C21: price history is append-only.  Every step keeps the stored samples
\* of every product in their order, and a payload scrape that completes on
\* an existing product has added exactly one sample, the scraped
\* currentPrice, with lowest/highest/average recomputed over the resulting
\* history -- also when two re-scrapes run concurrently.
C21_PriceHistoryAppendOnly ==
    [][\A id \in DOMAIN products :
          /\ IsPrefix(products[id].priceHistory, products'[id].priceHistory)
          /\ \A r \in Runs :
                Rescraped(r, id) =>
                   /\ products'[id].priceHistory =
                         Append(products[id].priceHistory, runs[r].price)
                   /\ products'[id].lowestPrice =
                         getLowestPrice(products'[id].priceHistory)
                   /\ products'[id].highestPrice =
                         getHighestPrice(products'[id].priceHistory)
                   /\ products'[id].averagePrice =
                         getAveragePrice(products'[id].priceHistory)]_vars

(***************************************************************************)
(* C22                                                                     *)
(***************************************************************************)
\* the route starts the outbound fetch in this step
ResolutionIssued == look.pc # "resolving" /\ look'.pc = "resolving"

\* the answer given when no resolution is attempted and nothing is found
NotFoundAnswer(url) == LookupAnswer(url, 200, FALSE, None)

\* C22: short-link resolution is bounded and best-effort.  The outbound
\* fetch is issued only when the first identity lookup found nothing and the
\* host of the request URL is amzn.to (or a subdomain), a lookup request
\* that is resolving ends with its next step, and a resolution that fails
\* or ends on the request URL itself answers 200 { found: false }.
C22_BoundedResolution ==
    [][ /\ ResolutionIssued =>
              /\ WithAnyUrl(Range(buildUrlCandidates(look'.url))) = {}
              /\ CanParse(Trim(look'.url))
              /\ ParseUrl(Trim(look'.url)).host = "amzn.to"
        /\ look.pc = "resolving" /\ look' # look =>
              look'.pc = "done" /\ look'.url = look.url
        /\ \A resolvedUrl \in {NoUrl, look.url} :
              LookupResolved(resolvedUrl) => look' = NotFoundAnswer(look.url)
        /\ look.pc = "resolving" /\ look' # look => look'.http = 200
      ]_vars

\* a short link that no stored product answers to has been looked up and
\* answered not found
C22_Witness ==
    /\ look.pc = "done" /\ look.url = ShortUrl
    /\ look.http = 200 /\ ~look.found
    /\ DOMAIN products # {}

(***************************************************************************)
(* C23                                                                     *)
(***************************************************************************)
\* the documents one store lookup of run r's URL candidates can return
Findable(r) == WithAnyUrl(BaseCandidates(runs[r].url))

\* run r, polling, takes a step
PollStep(r) == runs[r].pc = "lookup" /\ runs'[r] # runs[r]

\* C23: synchronous-mode polling terminates.  A run whose workflow answered
\* 2xx without a payload returns complete with the id of a product as soon
\* as one lookup of its candidates finds one, otherwise looks again, at
\* most 12 times, and then returns queued; it never returns failed; and
\* every polling run eventually returns.
C23_PollingTerminates ==
    /\ [][\A r \in Runs :
            PollStep(r) =>
               /\ runs[r].attempt < 12
               /\ runs'[r].result # "failed"
               /\ Findable(r) # {} =>
                     /\ runs'[r].pc = "done" /\ runs'[r].result = "complete"
                     /\ runs'[r].productId \in Findable(r)
               /\ Findable(r) = {} =>
                     /\ runs'[r].attempt = runs[r].attempt + 1
                     /\ IF runs'[r].attempt < 12
                        THEN runs'[r].pc = "lookup"
                        ELSE runs'[r].pc = "done" /\ runs'[r].result = "queued"]_vars
    /\ \A r \in Runs : (runs[r].pc = "lookup") ~> (runs[r].pc = "done")

\* a run has looked twelve times in vain and answered queued; the product
\* was stored by a payload submission only afterwards
C23_Witness ==
    \E r, q \in Runs :
        /\ runs[r].pc = "done" /\ runs[r].mode = "placeholder"
        /\ runs[r].result = "queued" /\ runs[r].attempt = 12
        /\ runs[q].pc = "done" /\ runs[q].mode = "payload"
        /\ runs[q].result = "complete"

(***************************************************************************)
(* C24                                                                     *)
(***************************************************************************)
\* the component has stored a terminal status
TerminalObserved == client.analytics \in {"complete", "failed"}

\* C24: client polling stops at a terminal status.  A mounted component
\* issues the trigger POST at most once, and issues a poll GET only while
\* no poll response with status complete or failed has been observed.
C24_ClientPollingStops ==
    [][ /\ client'.posts <= 1
        /\ client'.gets > client.gets => ~TerminalObserved ]_vars

(***************************************************************************)
(* C25                                                                     *)
(***************************************************************************)
\* a step of the trigger, of its dispatch-failure handler or of the callback
\* receiver
AnalyticsStep == trig' # trig \/ cb' # cb

\* a step of the scrape action
ScrapeStep == runs' # runs

\* document q is document p2 but for the analytics sub-record (and the
\* timestamp the store maintains)
SameButAnalytics(p2, q) ==
    q = [p2 EXCEPT !.analytics = q.analytics, !.updatedAt = q.updatedAt]

\* C25: analytics writes and product writes do not interfere.  A write of
\* the trigger, of the dispatch-failure handler or of the callback receiver
\* changes nothing of a Product outside its analytics sub-record (url,
\* prices, priceHistory and aggregates stay), and a re-scrape upsert leaves
\* the analytics sub-record as it is, in every interleaving of the two.
C25_NoInterference ==
    [][\A id \in DOMAIN products :
          /\ id \in DOMAIN products'
          /\ AnalyticsStep => SameButAnalytics(products[id], products'[id])
          /\ ScrapeStep => products'[id].analytics = products[id].analytics]_vars

\* a re-scrape has appended its sample between the trigger's write and the
\* callback's: the product holds the new sample and the completed analytics
C25_Witness ==
    /\ Len(products["p1"].priceHistory) > Len(StoredHistory)
    /\ products["p1"].analytics.status = "complete"
    /\ products["p1"].analytics.requestedAt # NoTime
    /\ \E r \in Runs : runs[r].pc = "done" /\ runs[r].result = "complete"
    /\ trig[1].retriggered

(***************************************************************************)
(* C26                                                                     *)
(***************************************************************************)
\* the sub-record of trigger s's product still shows the pending state that
\* trigger s wrote
ReflectsTrigger(s) ==
    /\ products[trig[s].id].analytics.status = "pending"
    /\ products[trig[s].id].analytics.requestedAt = trig[s].now

\* C26: a stale dispatch failure does not clobber newer state.  When the
\* dispatch of a trigger fails, its failure handler sets the sub-record to
\* failed only while the sub-record still reflects that trigger; a pending
\* state written by a later trigger, or a complete state written by a
\* callback, is left as it is.
C26_StaleFailureKept ==
    [][\A s \in Slots :
          DispatchFail(s) /\ Matched(trig[s].id) /\ ~ReflectsTrigger(s) =>
             products'[trig[s].id].analytics = products[trig[s].id].analytics]_vars

(***************************************************************************)
(* C27                                                                     *)
(***************************************************************************)
\* two non-forced trigger requests for one product, neither answered when
\* the other arrived, both having read the sub-record idle
ConcurrentIdleTriggers(s, t) ==
    /\ s # t /\ trig[s].id = trig[t].id /\ trig[s].id # None
    /\ ~trig[s].force /\ ~trig[t].force
    /\ s \notin trig[t].after /\ t \notin trig[s].after
    /\ trig[s].snapStatus = "idle" /\ trig[t].snapStatus = "idle"

\* C27: concurrent triggers dispatch once.  Of two non-forced trigger
\* requests for the same product that are in flight at the same time, with
\* a webhook URL configured, no stored report and the sub-record idle, at
\* most one dispatches the webhook and answers retriggered: true.
C27_SingleDispatch ==
    \A s, t \in Slots :
        webhookUrl /\ ConcurrentIdleTriggers(s, t) =>
           ~(trig[s].retriggered /\ trig[t].retriggered)

(***************************************************************************)
(* C28                                                                     *)
(***************************************************************************)
\* C28: sub-record field consistency.  In every reachable state of a
\* Product, status pending goes with no error and no completedAt, status
\* complete with no error and a completedAt, and status failed with a
\* non-empty error and a completedAt.
C28_FieldConsistency ==
    \A id \in DOMAIN products :
        LET a == products[id].analytics
        IN  /\ a.status = "pending" => a.error = None /\ a.completedAt = NoTime
            /\ a.status = "complete" => a.error = None /\ a.completedAt # NoTime
            /\ a.status = "failed" =>
                  a.error # None /\ a.error # "" /\ a.completedAt # NoTime

\* a trigger has set the sub-record to pending again after the dispatch of
\* an earlier one had failed
C28_Witness ==
    /\ products["p1"].analytics.status = "pending"
    /\ products["p1"].analytics.error = None
    /\ \E s \in Slots : trig[s].disp = "failed"

(***************************************************************************)
(* C29                                                                     *)
(***************************************************************************)
\* a poll of the product would answer complete, by whatever layer
PollsComplete(id) == \E a \in PollAnswers(id) : a.status = "complete"

\* trigger s, not forced, takes its decision in this step, the sub-record
\* being as the trigger read it
NonForcedDecision(s) ==
    /\ trig[s].pc = "check" /\ trig'[s].pc # "check"
    /\ ~trig[s].force
    /\ trig[s].snapStatus = products[trig[s].id].analytics.status

\* C29: Trigger and Poll agree on completeness.  Whenever a poll of the
\* product would answer complete, by a stored report or by the embedded
\* sub-record that is complete with inline data, a non-forced trigger
\* deciding in that state answers without writing pending and without
\* dispatching the webhook.
C29_TriggerPollAgree ==
    [][\A s \in Slots :
          NonForcedDecision(s) /\ PollsComplete(trig[s].id) =>
             trig'[s].pc = "done" /\ ~trig'[s].retriggered]_vars

(***************************************************************************)
(* C30                                                                     *)
(***************************************************************************)
\* the sub-record of the product is pending as a forced trigger wrote it,
\* and no callback is being processed
ForcedPending(id) ==
    /\ id \in DOMAIN products
    /\ products[id].analytics.status = "pending"
    /\ cb.pc = "idle"
    /\ \E s \in Slots :
          /\ trig[s].id = id /\ trig[s].force /\ trig[s].retriggered
          /\ products[id].analytics.requestedAt = trig[s].now

\* C30: a forced retrigger is visible to Poll.  Once a trigger with force=1
\* has set the sub-record of a product with a stored report to pending,
\* every poll of the product answers pending, not the stored report, until
\* a callback of the new run or the failure of its dispatch is processed.
C30_ForcedRetriggerVisible ==
    [][Poll("p1") /\ ForcedPending("p1") => poll'.status = "pending"]_vars

=============================================================================
